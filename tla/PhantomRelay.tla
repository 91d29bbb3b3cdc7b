----------------------------- MODULE PhantomRelay -----------------------------
(***************************************************************************)
(* The backend's relay between a wallet on a phone and a desktop browser   *)
(* (phantom_handler.go).  Sessions live in a sync.Map of pointers; every   *)
(* request is a goroutine, and one that has loaded the pointer goes on     *)
(* with it after the session was deleted from the map.                     *)
(***************************************************************************)
EXTENDS Naturals, FiniteSets

CONSTANTS
    SessionIds,     \* random ids, each used once
    Callbacks,      \* redirects of the phone, answers of the wallet's owner
    Polls,          \* poll requests that can be under way at the same time
    Lifetime,       \* 5 minutes, in ticks
    Reordered,      \* whether another goroutine may see the unsynchronised
                    \* stores of a callback out of order
    BuffersReused   \* whether a later request may overwrite the buffer that
                    \* the strings of a callback's query point into

VARIABLES
    sessions,   \* ids in the map
    orphans,    \* ids in the map under a key that was overwritten
    session,    \* the phantomSession objects, by id
    callback,   \* callback requests
    poll        \* poll requests and their answers

relayVars == <<sessions, orphans, session, callback, poll>>

Session ==
    [ age : 0 .. Lifetime + 1, errorCode : BOOLEAN,
      data : {"none", "approved", "overwritten"}, received : BOOLEAN ]

RelayTypeOK ==
    /\ sessions \subseteq DOMAIN session
    /\ orphans \subseteq DOMAIN session
    /\ DOMAIN session \subseteq SessionIds
    /\ session \in [DOMAIN session -> Session]

RelayInit ==
    /\ sessions = {}
    /\ orphans = {}
    /\ session = [s \in {} |-> {}]
    /\ callback = [j \in Callbacks |-> [pc |-> "unused"]]
    /\ poll = [k \in Polls |-> [pc |-> "idle"]]

Expired(s) == session[s].age > Lifetime

\* Time passes for all sessions; an expired one gets no older.
Age ==
    session' = [s \in DOMAIN session |->
        [session[s] EXCEPT !.age = IF Expired(s) THEN @ ELSE @ + 1]]

-----------------------------------------------------------------------------

CreateSession(s) ==
    /\ s \notin DOMAIN session
    /\ session' = [t \in DOMAIN session \cup {s} |->
                     IF t = s THEN [age |-> 0, errorCode |-> FALSE,
                                    data |-> "none", received |-> FALSE]
                     ELSE session[t]]
    /\ sessions' = sessions \cup {s}
    /\ UNCHANGED <<orphans, callback, poll>>

\* Mutant: an answered session is left for the poll to remove.
OnlyUnanswered(s) == Expired(s) /\ ~session[s].received

Removable(s) == Expired(s)

\* Every 60 seconds, Delete of the keys of what has expired.  An overwritten key
\* does not lead to its own entry any more: Delete misses that entry, and takes
\* away the session whose id the key reads as by now, if it is one.
Cleanup ==
    /\ \E s \in sessions \cup orphans : Removable(s)
    /\ \E misread \in SUBSET sessions :
         /\ Cardinality(misread) <= Cardinality({s \in orphans : Removable(s)})
         /\ sessions' = {s \in sessions : ~Removable(s)} \ misread
    /\ UNCHANGED <<orphans, session, callback, poll>>

-----------------------------------------------------------------------------
(* GET /phantom/callback *)

CallbackLoad(j, s, approved) ==
    /\ callback[j].pc = "unused"
    /\ callback' = [callback EXCEPT ![j] =
         IF s \in sessions
         THEN [pc |-> "loaded", session |-> s, approved |-> approved,
               filled |-> FALSE, flagged |-> FALSE]
         ELSE [pc |-> "done"]]
    /\ UNCHANGED <<sessions, orphans, session, poll>>

\* The fields of the answer.  A success leaves an earlier ErrorCode.
CallbackFill(j) ==
    LET s == callback[j].session IN
    /\ callback[j].pc = "loaded" /\ ~callback[j].filled
    /\ session' = IF callback[j].approved
                  THEN [session EXCEPT ![s].data = "approved"]
                  ELSE [session EXCEPT ![s].errorCode = TRUE]
    /\ callback' = [callback EXCEPT ![j].filled = TRUE]
    /\ UNCHANGED <<sessions, orphans, poll>>

CallbackFlag(j) ==
    /\ callback[j].pc = "loaded" /\ ~callback[j].flagged
    /\ callback[j].filled \/ Reordered
    /\ session' = [session EXCEPT ![callback[j].session].received = TRUE]
    /\ callback' = [callback EXCEPT ![j].flagged = TRUE]
    /\ UNCHANGED <<sessions, orphans, poll>>

\* The final Store puts back a session that was deleted meanwhile, under the key
\* of the request.  For one that is there, sync.Map may keep the key it has or
\* take the request's.
CallbackStore(j) ==
    LET s == callback[j].session IN
    /\ callback[j].pc = "loaded" /\ callback[j].filled /\ callback[j].flagged
    /\ sessions' = sessions \cup {s}
    /\ \E newKey \in BOOLEAN :
         /\ s \notin sessions => newKey
         /\ callback' = [callback EXCEPT ![j] =
              IF BuffersReused /\ (callback[j].approved \/ newKey)
              THEN [pc |-> "aliased", session |-> s, approved |-> callback[j].approved,
                    newKey |-> newKey]
              ELSE [pc |-> "done"]]
    /\ UNCHANGED <<orphans, session, poll>>

\* c.Query returns strings that alias the request's buffer (no Immutable in
\* app.go).  After the handler returns, another request may overwrite what the
\* session holds and, if the map has it, the key.
Overwrite(j) ==
    LET s == callback[j].session IN
    /\ callback[j].pc = "aliased"
    /\ session' = IF callback[j].approved
                  THEN [session EXCEPT ![s].data = "overwritten"] ELSE session
    /\ IF callback[j].newKey /\ s \in sessions
       THEN sessions' = sessions \ {s} /\ orphans' = orphans \cup {s}
       ELSE UNCHANGED <<sessions, orphans>>
    /\ callback' = [callback EXCEPT ![j] = [pc |-> "done"]]
    /\ UNCHANGED poll

CallbackStep(j) ==
    CallbackFill(j) \/ CallbackFlag(j) \/ CallbackStore(j) \/ Overwrite(j)

-----------------------------------------------------------------------------
(* GET /phantom/poll/:session *)

Answer(k, status) ==
    poll' = [poll EXCEPT ![k] =
               [pc |-> "answered", session |-> poll[k].session, status |-> status]]

PollLoad(k) ==
    /\ poll[k].pc = "sent"
    /\ \/ /\ poll[k].session \in sessions
          /\ poll' = [poll EXCEPT ![k].pc = "loaded"]
       \/ /\ poll[k].session \notin sessions
          /\ Answer(k, "expired")
    /\ UNCHANGED <<sessions, orphans, session, callback>>

\* Mutant: the answer is not awaited.
ReceivedOrNot(s) == TRUE

AnswerReceived(s) == session[s].received

PollDelete(k) ==
    LET s == poll[k].session IN
    /\ poll[k].pc = "loaded"
    /\ \/ /\ ~AnswerReceived(s)
          /\ Answer(k, "pending")
          /\ UNCHANGED sessions
       \/ /\ AnswerReceived(s)
          /\ sessions' = sessions \ {s}
          /\ poll' = [poll EXCEPT ![k].pc = "deleted"]
    /\ UNCHANGED <<orphans, session, callback>>

\* The answer "connected" with whatever data the session holds by now.
PollRespond(k) ==
    LET s == poll[k].session IN
    /\ poll[k].pc = "deleted"
    /\ Answer(k, IF session[s].errorCode THEN "error" ELSE session[s].data)
    /\ UNCHANGED <<sessions, orphans, session, callback>>

PollStep(k) == PollLoad(k) \/ PollDelete(k) \/ PollRespond(k)
=============================================================================
