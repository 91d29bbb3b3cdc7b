------------------------------ MODULE LienMirror ------------------------------
(***************************************************************************)
(* What an index of liens kept beside the chain promises: a lender is      *)
(* listed for a parcel while the pledge is in force, and after it until    *)
(* the announcement of its end has been carried out, at most one lender a  *)
(* parcel.  The pledges themselves obey PledgeLock.                        *)
(***************************************************************************)
CONSTANTS Parcels, Lenders

VARIABLES
    pledged,    \* the pairs <<parcel, lender>> in force
    ending,     \* the pairs whose end is announced and perhaps not carried out
    listed      \* the pairs the index shows

mirrorVars == <<pledged, ending, listed>>

Lock == INSTANCE PledgeLock

Unlisted(p) == \A l \in Lenders : <<p, l>> \notin listed

Init == Lock!Init /\ ending = {} /\ listed = {}

Pledge(p, l) ==
    /\ Lock!Pledge(p, l)
    /\ UNCHANGED <<ending, listed>>

\* The end of a pledge is announced with it.
Redeem(p, l) ==
    /\ Lock!Redeem(p, l)
    /\ ending' = ending \cup {<<p, l>>}
    /\ UNCHANGED listed

\* Only a pledge in force is listed, where nobody is.
List(p, l) ==
    /\ <<p, l>> \in pledged
    /\ Unlisted(p)
    /\ listed' = listed \cup {<<p, l>>}
    /\ UNCHANGED <<pledged, ending>>

\* The lender's own word takes it off the list, early or late.
Unlist(p, l) ==
    /\ <<p, l>> \in listed
    /\ listed' = listed \ {<<p, l>>}
    /\ UNCHANGED <<pledged, ending>>

\* An announcement is carried out once or more; it is not forgotten before.
CarryOut(p, l) ==
    /\ <<p, l>> \in ending
    /\ listed' = listed \ {<<p, l>>}
    /\ ending' \in {ending, ending \ {<<p, l>>}}
    /\ UNCHANGED pledged

Next ==
    \E p \in Parcels, l \in Lenders :
        \/ Pledge(p, l) \/ Redeem(p, l)
        \/ List(p, l) \/ Unlist(p, l) \/ CarryOut(p, l)

Spec == Init /\ [][Next]_mirrorVars
=============================================================================
