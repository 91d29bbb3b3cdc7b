------------------------- MODULE PhantomConnect_proofs -------------------------
(***************************************************************************)
(* Proofs about the phone connection, for any number of sessions,          *)
(* callbacks and polls, any lifetimes, and with or without the two races   *)
(* of the callback (Reordered, BuffersReused).                             *)
(***************************************************************************)
EXTENDS PhantomConnect, FiniteSetTheorems, TLAPS

\* What a poll can be answered.
Answers == {"pending", "expired", "error", "none", "approved", "overwritten"}

\* A poll request: idle, waiting for its next statement, answered.
PollRequest ==
    [pc : {"idle"}]
    \cup [pc : {"sent", "loaded", "deleted"}, session : SessionIds]
    \cup [pc : {"answered"}, session : SessionIds, status : Answers]

\* A callback request: it holds its session until the response is out and,
\* where strings alias its buffer, after it.
CallbackRequest ==
    [pc : {"unused", "done"}]
    \cup [pc : {"loaded"}, session : SessionIds, approved : BOOLEAN,
          filled : BOOLEAN, flagged : BOOLEAN]
    \cup [pc : {"aliased"}, session : SessionIds, approved : BOOLEAN, newKey : BOOLEAN]

\* A poll asks for a session that was on the screen, and an answer with a
\* wallet is for a session whose owner answered.
PollsOK ==
    /\ poll \in [Polls -> PollRequest]
    /\ \A k \in Polls : poll[k].pc # "idle" => poll[k].session \in shown
    /\ \A k \in Polls :
         poll[k].pc = "answered" /\ poll[k].status \in {"approved", "overwritten"}
           => session[poll[k].session].data # "none"

\* A callback writes only to a session that exists.
CallbacksOK ==
    /\ callback \in [Callbacks -> CallbackRequest]
    /\ \A j \in Callbacks :
         "session" \in DOMAIN callback[j] => callback[j].session \in DOMAIN session

\* The inductive invariant.
PhantomInv == TypeOK /\ PollsOK /\ CallbacksOK /\ ConnectedIsApproved

-----------------------------------------------------------------------------
(* The session objects *)

\* An answer is never taken back: no statement empties a session object, and an
\* object stays while somebody points at it, in the map or not.
Kept ==
    /\ DOMAIN session \subseteq DOMAIN session'
    /\ \A s \in DOMAIN session : session[s].data # "none" => session'[s].data # "none"

SessionsTyped == DOMAIN session \subseteq SessionIds /\ session \in [DOMAIN session -> Session]

\* The session objects grow older.
LEMMA AgeSessions ==
    ASSUME SessionsTyped, Age
    PROVE  SessionsTyped' /\ Kept
<1>1. Lifetime \in Nat
  BY PhantomAssumption
<1>2. ASSUME NEW s \in DOMAIN session
      PROVE  /\ session'[s] \in Session
             /\ session'[s].data = session[s].data
  <2>1. session[s] \in Session
    BY DEF SessionsTyped
  <2>2. session'[s] = [session[s] EXCEPT !.age = IF Expired(s) THEN session[s].age
                                                  ELSE session[s].age + 1]
    BY DEF Age
  <2>3. (IF Expired(s) THEN session[s].age ELSE session[s].age + 1) \in 0 .. Lifetime + 1
    BY <1>1, <2>1 DEF Expired, Session
  <2>4. QED
    BY <2>1, <2>2, <2>3 DEF Session
<1>3. DOMAIN session' = DOMAIN session
  BY DEF Age
<1>4. session' = [s \in DOMAIN session' |-> session'[s]]
  BY DEF Age
<1>5. QED
  BY <1>2, <1>3, <1>4 DEF SessionsTyped, Kept

\* A new session is one more object.
LEMMA CreateKeepsSessions ==
    ASSUME SessionsTyped, NEW s \in SessionIds, CreateSession(s)
    PROVE  SessionsTyped' /\ Kept /\ s \in DOMAIN session'
<1>1. [age |-> 0, errorCode |-> FALSE, data |-> "none", received |-> FALSE] \in Session
  BY PhantomAssumption DEF Session
<1>2. QED
  BY <1>1 DEF CreateSession, SessionsTyped, Kept

\* The stores of a callback, each to one field of one object.
LEMMA StoresKeepSessions ==
    ASSUME SessionsTyped, NEW s \in DOMAIN session,
           \/ session' = [session EXCEPT ![s].data = "approved"]
           \/ session' = [session EXCEPT ![s].data = "overwritten"]
           \/ session' = [session EXCEPT ![s].errorCode = TRUE]
           \/ session' = [session EXCEPT ![s].received = TRUE]
           \/ UNCHANGED session
    PROVE  SessionsTyped' /\ Kept
<1>0. session[s] \in Session /\ session \in [DOMAIN session -> Session]
  BY DEF SessionsTyped
<1>1. ASSUME NEW o \in Session, session[s].data # "none" => o.data # "none",
             session' = [session EXCEPT ![s] = o]
      PROVE  SessionsTyped' /\ Kept
  BY <1>0, <1>1 DEF SessionsTyped, Kept
<1>2. CASE session' = [session EXCEPT ![s].data = "approved"]
  BY <1>0, <1>1, <1>2 DEF Session
<1>3. CASE session' = [session EXCEPT ![s].data = "overwritten"]
  BY <1>0, <1>1, <1>3 DEF Session
<1>4. CASE session' = [session EXCEPT ![s].errorCode = TRUE]
  BY <1>0, <1>1, <1>4 DEF Session
<1>5. CASE session' = [session EXCEPT ![s].received = TRUE]
  BY <1>0, <1>1, <1>5 DEF Session
<1>6. CASE UNCHANGED session
  BY <1>6 DEF SessionsTyped, Kept
<1>7. QED
  BY <1>2, <1>3, <1>4, <1>5, <1>6

\* So the answers are kept by every step.
LEMMA SessionsStep ==
    ASSUME SessionsTyped, CallbacksOK, [Next]_vars
    PROVE  SessionsTyped' /\ Kept
<1>1. ASSUME NEW j \in Callbacks, CallbackStep(j)
      PROVE  SessionsTyped' /\ Kept
  <2>1. CASE "session" \in DOMAIN callback[j]
    BY <1>1, <2>1, StoresKeepSessions
       DEF CallbacksOK, CallbackStep, CallbackFill, CallbackFlag, CallbackStore, Overwrite
  <2>2. CASE callback[j].pc \in {"loaded", "aliased"}
    BY <2>1, <2>2 DEF CallbacksOK, CallbackRequest
  <2>3. QED
    BY <1>1, <2>1, <2>2 DEF CallbackStep, CallbackFill, CallbackFlag, CallbackStore, Overwrite
<1>2. CASE UNCHANGED session
  BY <1>2 DEF SessionsTyped, Kept
<1>3. QED
  BY <1>1, <1>2, AgeSessions, CreateKeepsSessions
     DEF Next, Hook, Server, ConnectViaQR, PostSession, PostSessionFails, OpenSession,
         IntervalTick, PollAnswered, PollLost, Scan, CallbackLoad, Tick, Cleanup, PollStep,
         PollLoad, PollDelete, PollRespond, vars, relayVars
-----------------------------------------------------------------------------
(* The requests *)

\* Callbacks keep to sessions that exist.
LEMMA CallbacksStep ==
    ASSUME RelayTypeOK, CallbacksOK, Kept, [Next]_vars
    PROVE  CallbacksOK'
<1>0. callback \in [Callbacks -> CallbackRequest] /\ DOMAIN session \subseteq SessionIds
  BY DEF CallbacksOK, RelayTypeOK
<1>1. ASSUME NEW j \in Callbacks, NEW r \in CallbackRequest,
             callback' = [callback EXCEPT ![j] = r],
             "session" \in DOMAIN r => r.session \in DOMAIN session
      PROVE  CallbacksOK'
  BY <1>0, <1>1 DEF CallbacksOK, Kept
<1>2. ASSUME NEW j \in Callbacks, NEW s \in SessionIds, Scan(j, s)
      PROVE  CallbacksOK'
  <2>1. PICK approved \in BOOLEAN : CallbackLoad(j, s, approved)
    BY <1>2 DEF Scan
  <2>2. CASE s \in sessions
    <3>1. s \in DOMAIN session
      BY <2>2 DEF RelayTypeOK
    <3>2. QED
      BY <1>1, <2>1, <2>2, <3>1 DEF CallbackLoad, CallbackRequest
  <2>3. CASE s \notin sessions
    BY <1>1, <2>1, <2>3 DEF CallbackLoad, CallbackRequest
  <2>4. QED
    BY <2>2, <2>3
<1>3. ASSUME NEW j \in Callbacks, CallbackFill(j) \/ CallbackFlag(j)
      PROVE  CallbacksOK'
  <2>1. /\ callback[j] \in [pc : {"loaded"}, session : SessionIds, approved : BOOLEAN,
                            filled : BOOLEAN, flagged : BOOLEAN]
        /\ callback[j].session \in DOMAIN session
    BY <1>0, <1>3 DEF CallbackFill, CallbackFlag, CallbacksOK, CallbackRequest
  <2>2. \/ callback' = [callback EXCEPT ![j] = [callback[j] EXCEPT !.filled = TRUE]]
        \/ callback' = [callback EXCEPT ![j] = [callback[j] EXCEPT !.flagged = TRUE]]
    BY <1>3 DEF CallbackFill, CallbackFlag
  <2>3. QED
    BY <1>1, <2>1, <2>2 DEF CallbackRequest
<1>4. ASSUME NEW j \in Callbacks, CallbackStore(j)
      PROVE  CallbacksOK'
  <2>1. /\ callback[j].session \in DOMAIN session
        /\ callback[j].approved \in BOOLEAN
    BY <1>0, <1>4 DEF CallbackStore, CallbacksOK, CallbackRequest
  <2>2. QED
    BY <1>0, <1>1, <1>4, <2>1 DEF CallbackStore, CallbackRequest
<1>5. ASSUME NEW j \in Callbacks, Overwrite(j)
      PROVE  CallbacksOK'
  BY <1>1, <1>5 DEF Overwrite, CallbackRequest
<1>6. CASE UNCHANGED callback
  BY <1>6 DEF CallbacksOK, Kept
<1>7. QED
  BY <1>2, <1>3, <1>4, <1>5, <1>6
     DEF Next, Hook, Server, CallbackStep, ConnectViaQR, PostSession, CreateSession,
         PostSessionFails, OpenSession, IntervalTick, PollAnswered, PollLost, Tick, Cleanup,
         PollStep, PollLoad, PollDelete, PollRespond, vars, relayVars

\* Polls ask for what was on the screen, and are told of an answer there was.
LEMMA PollsStep ==
    ASSUME TypeOK, PollsOK, Kept, [Next]_vars
    PROVE  PollsOK'
<1>0. /\ poll \in [Polls -> PollRequest]
      /\ shown \subseteq DOMAIN session /\ shown \subseteq shown'
      /\ DOMAIN session \subseteq SessionIds /\ intervals \subseteq shown
  BY DEF PollsOK, TypeOK, RelayTypeOK, Next, Hook, Server, ConnectViaQR, PostSession,
         PostSessionFails, OpenSession, IntervalTick, PollAnswered, PollLost, Scan, Tick,
         vars, hookVars
<1>1. ASSUME NEW k \in Polls, NEW r \in PollRequest,
             poll' = [poll EXCEPT ![k] = r],
             r.pc # "idle" => r.session \in shown,
             r.pc = "answered" /\ r.status \in {"approved", "overwritten"}
               => session[r.session].data # "none"
      PROVE  PollsOK'
  <2>1. poll' \in [Polls -> PollRequest] /\ poll'[k] = r
    BY <1>0, <1>1
  <2>2. \A i \in Polls : i # k => poll'[i] = poll[i]
    BY <1>0, <1>1
  <2>3. ASSUME NEW i \in Polls, poll'[i].pc # "idle"
        PROVE  poll'[i].session \in shown
    BY <1>1, <2>1, <2>2, <2>3 DEF PollsOK
  <2>4. ASSUME NEW i \in Polls, poll'[i].pc = "answered",
               poll'[i].status \in {"approved", "overwritten"}
        PROVE  session[poll'[i].session].data # "none"
    BY <1>1, <2>1, <2>2, <2>4 DEF PollsOK
  <2>5. QED
    BY <1>0, <2>1, <2>3, <2>4 DEF PollsOK, Kept
<1>2. ASSUME NEW k \in Polls, poll[k].pc \in {"sent", "loaded", "deleted"}
      PROVE  /\ poll[k] \in [pc : {"sent", "loaded", "deleted"}, session : SessionIds]
             /\ poll[k].session \in shown
  BY <1>0, <1>2 DEF PollsOK, PollRequest
<1>3. ASSUME NEW k \in Polls, NEW told \in Answers, Answer(k, told),
             poll[k].pc \in {"sent", "loaded", "deleted"},
             told \in {"approved", "overwritten"} => session[poll[k].session].data # "none"
      PROVE  PollsOK'
  <2>1. [pc |-> "answered", session |-> poll[k].session, status |-> told] \in PollRequest
    BY <1>2, <1>3 DEF PollRequest
  <2>2. QED
    BY <1>1, <1>2, <1>3, <2>1 DEF Answer
<1>4. ASSUME NEW k \in Polls, PollLoad(k)
      PROVE  PollsOK'
  <2>1. CASE Answer(k, "expired")
    BY <1>3, <1>4, <2>1 DEF PollLoad, Answers
  <2>2. CASE poll' = [poll EXCEPT ![k].pc = "loaded"]
    BY <1>1, <1>2, <1>4, <2>2 DEF PollLoad, PollRequest
  <2>3. QED
    BY <1>4, <2>1, <2>2 DEF PollLoad
<1>5. ASSUME NEW k \in Polls, PollDelete(k)
      PROVE  PollsOK'
  <2>1. CASE Answer(k, "pending")
    BY <1>3, <1>5, <2>1 DEF PollDelete, Answers
  <2>2. CASE poll' = [poll EXCEPT ![k].pc = "deleted"]
    BY <1>1, <1>2, <1>5, <2>2 DEF PollDelete, PollRequest
  <2>3. QED
    BY <1>5, <2>1, <2>2 DEF PollDelete
<1>6. ASSUME NEW k \in Polls, PollRespond(k)
      PROVE  PollsOK'
  <2>1. poll[k].pc = "deleted" /\ session[poll[k].session] \in Session
    BY <1>0, <1>2, <1>6 DEF PollRespond, TypeOK, RelayTypeOK
  <2>2. CASE session[poll[k].session].errorCode
    BY <1>3, <1>6, <2>1, <2>2 DEF PollRespond, Answers
  <2>3. CASE ~session[poll[k].session].errorCode
    BY <1>3, <1>6, <2>1, <2>3 DEF PollRespond, Answers, Session
  <2>4. QED
    BY <2>2, <2>3
<1>7. ASSUME NEW k \in Polls, poll' = [poll EXCEPT ![k] = [pc |-> "idle"]]
      PROVE  PollsOK'
  BY <1>1, <1>7 DEF PollRequest
<1>8. ASSUME NEW k \in Polls, NEW s \in intervals,
             poll' = [poll EXCEPT ![k] = [pc |-> "sent", session |-> s]]
      PROVE  PollsOK'
  BY <1>0, <1>1, <1>8 DEF PollRequest
<1>9. CASE UNCHANGED poll
  BY <1>0, <1>9 DEF PollsOK, Kept
<1>10. QED
  BY <1>4, <1>5, <1>6, <1>7, <1>8, <1>9
     DEF Next, Hook, Server, CallbackStep, CallbackFill, CallbackFlag, CallbackStore, Overwrite,
         CallbackLoad, ConnectViaQR, PostSession, CreateSession, PostSessionFails, OpenSession,
         IntervalTick, PollAnswered, PollLost, Scan, Tick, Cleanup, PollStep, vars, relayVars
-----------------------------------------------------------------------------
(* The hook *)

\* The relay's own sets speak of objects that exist.
LEMMA RelayStep ==
    ASSUME RelayTypeOK, CallbacksOK, SessionsTyped', Kept, [Next]_vars
    PROVE  RelayTypeOK'
<1>1. sessions' \cup orphans' \subseteq DOMAIN session'
  <2>1. ASSUME NEW j \in Callbacks, CallbackStep(j)
        PROVE  sessions' \cup orphans' \subseteq DOMAIN session'
    <3>1. CASE "session" \in DOMAIN callback[j]
      BY <2>1, <3>1
         DEF CallbacksOK, RelayTypeOK, Kept, CallbackStep, CallbackFill, CallbackFlag,
             CallbackStore, Overwrite
    <3>2. CASE callback[j].pc \in {"loaded", "aliased"}
      BY <3>1, <3>2 DEF CallbacksOK, CallbackRequest
    <3>3. QED
      BY <2>1, <3>1, <3>2
         DEF CallbackStep, CallbackFill, CallbackFlag, CallbackStore, Overwrite
  <2>2. CASE sessions' \subseteq sessions /\ UNCHANGED orphans
    BY <2>2 DEF RelayTypeOK, Kept
  <2>3. ASSUME NEW s \in SessionIds, CreateSession(s)
        PROVE  sessions' \cup orphans' \subseteq DOMAIN session'
    BY <2>3 DEF CreateSession, RelayTypeOK
  <2>4. QED
    BY <2>1, <2>2, <2>3
       DEF Next, Hook, Server, ConnectViaQR, PostSession, PostSessionFails, OpenSession,
           IntervalTick, PollAnswered, PollLost, Scan, CallbackLoad, Tick, Cleanup, PollStep,
           PollLoad, PollDelete, PollRespond, vars, relayVars
<1>2. QED
  BY <1>1 DEF RelayTypeOK, SessionsTyped

\* What the tab keeps: the reference is to a live interval, every interval and
\* the wallet belong to a session that was on the screen.
LEMMA HookStep ==
    ASSUME TypeOK, PollsOK, Kept, [Next]_vars
    PROVE  /\ asked' \in 0 .. Cardinality(SessionIds)
           /\ opening' \subseteq DOMAIN session'
           /\ shown' \subseteq DOMAIN session'
           /\ status' \in {"idle", "waiting", "connected", "error"}
           /\ walletAddress' \in shown' \cup {None}
           /\ intervals' \subseteq shown'
           /\ pollingRef' \in intervals' \cup {None}
           /\ waited' \in 0 .. MaxPollTime + 1
<1>0. /\ Cardinality(SessionIds) \in Nat
      /\ Cardinality(DOMAIN session) \in Nat
  BY PhantomAssumption, FS_Subset, FS_CardinalityType DEF TypeOK, RelayTypeOK
<1>1. CASE ConnectViaQR
  BY <1>0, <1>1 DEF ConnectViaQR, StopPolling, TypeOK, Kept
<1>2. ASSUME NEW s \in SessionIds, PostSession(s)
      PROVE  /\ asked' \in 0 .. Cardinality(SessionIds)
             /\ opening' \subseteq DOMAIN session'
             /\ UNCHANGED <<shown, status, walletAddress, intervals, pollingRef, waited>>
  BY <1>0, <1>2 DEF PostSession, CreateSession, TypeOK, Kept
<1>3. CASE PostSessionFails
  BY <1>0, <1>3 DEF PostSessionFails, TypeOK, Kept
<1>4. ASSUME NEW s \in SessionIds, OpenSession(s)
      PROVE  /\ opening' \subseteq opening /\ UNCHANGED asked
             /\ shown' = shown \cup {s} /\ s \in DOMAIN session
             /\ status' = "waiting" /\ UNCHANGED walletAddress
             /\ intervals' = intervals \cup {s} /\ pollingRef' = s
             /\ waited' = 0
  BY <1>4 DEF OpenSession, TypeOK
<1>5. ASSUME NEW s \in SessionIds, IntervalTick(s)
      PROVE  /\ status' \in {"error", status}
             /\ StopPolling \/ UNCHANGED <<intervals, pollingRef>>
             /\ UNCHANGED <<asked, opening, shown, walletAddress, waited>>
  BY <1>5 DEF IntervalTick
<1>6. ASSUME NEW k \in Polls, PollAnswered(k)
      PROVE  /\ status' \in {"error", "connected", status}
             /\ walletAddress' \in {walletAddress, poll[k].session}
             /\ StopPolling \/ UNCHANGED <<intervals, pollingRef>>
             /\ UNCHANGED <<asked, opening, shown, waited>>
             /\ poll[k].session \in shown
  BY <1>6 DEF PollAnswered, PollsOK
<1>7. CASE Tick
  BY <1>7, PhantomAssumption DEF Tick, TypeOK, Kept
<1>8. CASE UNCHANGED hookVars
  BY <1>8 DEF hookVars, TypeOK, Kept
<1>9. CASE \E s \in SessionIds : PostSession(s)
  BY <1>2, <1>9 DEF TypeOK, Kept
<1>10. CASE \E s \in SessionIds : OpenSession(s)
  BY <1>4, <1>10, PhantomAssumption DEF TypeOK, Kept
<1>11. CASE \E s \in SessionIds : IntervalTick(s)
  BY <1>5, <1>11 DEF StopPolling, TypeOK, Kept
<1>12. CASE \E k \in Polls : PollAnswered(k)
  BY <1>6, <1>12 DEF StopPolling, TypeOK, Kept
<1>13. QED
  BY <1>1, <1>3, <1>7, <1>8, <1>9, <1>10, <1>11, <1>12
     DEF Next, Hook, Server, PollLost, Scan, vars

\* A wallet is shown for the session of the answer it came with, and nobody
\* takes that session's answer back.
LEMMA ConnectedStep ==
    ASSUME TypeOK, PollsOK, ConnectedIsApproved, Kept, [Next]_vars
    PROVE  ConnectedIsApproved'
<1>1. ASSUME NEW k \in Polls, PollAnswered(k), walletAddress' # walletAddress
      PROVE  /\ walletAddress' \in DOMAIN session
             /\ session[walletAddress'].data # "none"
  <2>1. /\ poll[k].pc = "answered" /\ HasWallet(poll[k].status)
        /\ walletAddress' = poll[k].session
    BY <1>1 DEF PollAnswered
  <2>2. QED
    BY <2>1 DEF HasWallet, PollsOK, TypeOK
<1>2. CASE \E k \in Polls : PollAnswered(k) /\ walletAddress' # walletAddress
  BY <1>1, <1>2 DEF ConnectedIsApproved, Kept
<1>3. CASE walletAddress' \in {walletAddress, None}
  BY <1>3 DEF ConnectedIsApproved, Kept, TypeOK
<1>4. QED
  BY <1>2, <1>3
     DEF Next, Hook, Server, ConnectViaQR, PostSession, PostSessionFails, OpenSession,
         IntervalTick, PollLost, Scan, Tick, vars, hookVars

-----------------------------------------------------------------------------
(* The theorems *)

\* Nothing is asked, shown or answered yet.
LEMMA PhantomInit == Init => PhantomInv
<1> SUFFICES ASSUME Init PROVE PhantomInv
  OBVIOUS
<1>1. TypeOK
  <2>1. Cardinality(SessionIds) \in Nat
    BY PhantomAssumption, FS_CardinalityType
  <2>2. QED
    BY <2>1, PhantomAssumption DEF Init, RelayInit, TypeOK, RelayTypeOK
<1>2. PollsOK
  BY DEF Init, RelayInit, PollsOK, PollRequest
<1>3. CallbacksOK
  BY DEF Init, RelayInit, CallbacksOK, CallbackRequest
<1>4. QED
  BY <1>1, <1>2, <1>3 DEF Init, PhantomInv, ConnectedIsApproved

\* The invariant is inductive.
LEMMA PhantomStep == PhantomInv /\ [Next]_vars => PhantomInv'
<1> SUFFICES ASSUME PhantomInv, [Next]_vars PROVE PhantomInv'
  OBVIOUS
<1>1. /\ TypeOK /\ RelayTypeOK /\ SessionsTyped /\ PollsOK /\ CallbacksOK
      /\ ConnectedIsApproved
  BY DEF PhantomInv, TypeOK, RelayTypeOK, SessionsTyped
<1>2. SessionsTyped' /\ Kept
  BY <1>1, SessionsStep
<1>3. PollsOK' /\ CallbacksOK' /\ ConnectedIsApproved' /\ RelayTypeOK'
  BY <1>1, <1>2, PollsStep, CallbacksStep, ConnectedStep, RelayStep
<1>4. TypeOK'
  BY <1>1, <1>2, <1>3, HookStep DEF TypeOK
<1>5. QED
  BY <1>3, <1>4 DEF PhantomInv

\* Polls, callbacks and sessions fit together in every reachable state.
THEOREM PhantomInvariant == Spec => []PhantomInv
  BY PhantomInit, PhantomStep, PTL DEF Spec

\* The tab's reference is always to a live interval, and every interval, poll
\* and wallet belongs to a session whose code was on the screen.
THEOREM PhantomTypeCorrect == Spec => []TypeOK
<1>1. PhantomInv => TypeOK
  BY DEF PhantomInv
<1>2. QED
  BY <1>1, PhantomInvariant, PTL

\* A wallet is shown only for a session whose owner approved it.
THEOREM ConnectedIsApprovedProved == Spec => []ConnectedIsApproved
<1>1. PhantomInv => ConnectedIsApproved
  BY DEF PhantomInv
<1>2. QED
  BY <1>1, PhantomInvariant, PTL
================================================================================
