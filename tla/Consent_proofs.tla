----------------------------- MODULE Consent_proofs -----------------------------
(***************************************************************************)
(* What the operators of Consent do: the requests under way as they are    *)
(* sent, answered, orphaned and permitted, and the access log as it grows. *)
(***************************************************************************)
EXTENDS Consent, SequenceTheorems, TLAPS

-----------------------------------------------------------------------------
(* Bags of requests *)

\* The requests of a bag that gets or loses some.
LEMMA RequestsOfBags ==
    /\ \A A, B : BagToSet(A (+) B) = BagToSet(A) \cup BagToSet(B)
    /\ \A A, B : BagToSet(A (-) B) \subseteq BagToSet(A)
    /\ \A S : BagToSet(SetToBag(S)) = S
    /\ \A r : BagToSet(Only(r)) = {r}
    /\ BagToSet(EmptyBag) = {}
BY DEF BagToSet, SetToBag, EmptyBag, Only, (+), (-)

\* A request has all its fields.
WellFormed(r) ==
    r = [tab |-> r.tab, op |-> r.op, parcel |-> r.parcel, wallet |-> r.wallet,
         stage |-> r.stage, live |-> r.live, answer |-> r.answer,
         known |-> r.known, allowed |-> r.allowed, failed |-> r.failed]

\* A fresh request of any kind.
LEMMA FreshRequest ==
    \A tab, op, parcel, wallet, r : r = Request(tab, op, parcel, wallet) =>
           /\ WellFormed(r)
           /\ r.tab = tab /\ r.op = op /\ r.parcel = parcel /\ r.wallet = wallet
           /\ r.stage = "sent" /\ r.live = TRUE /\ r.answer = None
           /\ r.known = FALSE /\ r.allowed = FALSE /\ r.failed = FALSE
BY DEF Request, WellFormed

\* A fresh request for a profile.
LEMMA FreshProfile ==
    \A tab, p, r : r = AskProfile(tab, p) =>
           /\ WellFormed(r)
           /\ r.tab = tab /\ r.op = "profile" /\ r.parcel = p
           /\ r.stage = "sent" /\ r.live = TRUE /\ r.answer = None
           /\ r.known <=> (parcels[p] \in Wallets /\ consents[parcels[p]] # None)
           /\ r.allowed <=> (parcels[p] \notin Wallets \/ Permits(parcels[p]))
           /\ r.failed = FALSE
<1> TAKE tab, p, r
<1> HAVE r = AskProfile(tab, p)
<1>1. PICK q : q = Request(tab, "profile", p, None)
  OBVIOUS
<1>2. /\ WellFormed(q) /\ q.tab = tab /\ q.op = "profile" /\ q.parcel = p
      /\ q.stage = "sent" /\ q.live = TRUE /\ q.answer = None /\ q.failed = FALSE
  BY <1>1 DEF Request, WellFormed
<1>3. r = [q EXCEPT !.known = parcels[p] \in Wallets /\ consents[parcels[p]] # None,
                    !.allowed = parcels[p] \notin Wallets \/ Permits(parcels[p])]
  BY <1>1 DEF AskProfile
<1>4. /\ r.known <=> (parcels[p] \in Wallets /\ consents[parcels[p]] # None)
      /\ r.allowed <=> (parcels[p] \notin Wallets \/ Permits(parcels[p]))
  BY <1>2, <1>3 DEF WellFormed
<1>5. WellFormed(r)
  BY <1>2, <1>3 DEF WellFormed
<1>6. QED
  BY <1>2, <1>3, <1>4, <1>5 DEF WellFormed

-----------------------------------------------------------------------------
(* What becomes of a request *)

\* x is r, or r after its page has left it or its farmer has granted.
Later(x, r) ==
    /\ WellFormed(x)
    /\ x.tab = r.tab /\ x.op = r.op /\ x.parcel = r.parcel /\ x.wallet = r.wallet
    /\ x.stage = r.stage /\ x.answer = r.answer /\ x.known = r.known /\ x.failed = r.failed
    /\ x.live => r.live
    /\ r.allowed => x.allowed

\* A request that nothing happens to.
LEMMA LaterReflexive == \A r : WellFormed(r) => Later(r, r)
BY DEF Later

\* When the components of a tab change, its requests go on and reach nobody.
LEMMA OrphanedRequests ==
    ASSUME NEW bag, NEW tab, \A r \in BagToSet(bag) : WellFormed(r),
           NEW x \in BagToSet(Orphaned(bag, tab))
    PROVE  /\ \E r \in BagToSet(bag) : Later(x, r)
           /\ x.tab = tab => ~x.live
<1> DEFINE mine == {r \in BagToSet(bag) : r.tab = tab}
           Left(r) == [r EXCEPT !.live = FALSE]
<1>1. BagToSet(Orphaned(bag, tab))
        = (BagToSet(bag) \ mine) \cup {Left(r) : r \in mine}
  BY Zenon DEF Orphaned, Restricted, BagToSet, BagOfAll, (+)
<1>2. CASE x \in BagToSet(bag) \ mine
  BY <1>2, LaterReflexive
<1>3. CASE x \in {Left(r) : r \in mine}
  <2>1. PICK r \in mine : x = Left(r)
    BY <1>3
  <2>2. WellFormed(r)
    OBVIOUS
  <2>3. Later(x, r) /\ ~x.live
    BY <2>1, <2>2 DEF Later, WellFormed
  <2>4. QED
    BY <2>1, <2>3
<1>4. QED
  BY <1>1, <1>2, <1>3

\* A grant allows what is asked about the farmer and changes nothing else.
LEMMA PermittedRequests ==
    ASSUME NEW bag, NEW w, \A r \in BagToSet(bag) : WellFormed(r),
           NEW x \in BagToSet(Permitted(w, bag))
    PROVE  /\ \E r \in BagToSet(bag) : Later(x, r)
           /\ (x.op = "profile" /\ parcels[x.parcel] = w) => x.allowed
<1> DEFINE asking == {r \in BagToSet(bag) : r.op = "profile" /\ parcels[r.parcel] = w}
           Now(r) == [r EXCEPT !.allowed = TRUE]
<1>1. BagToSet(Permitted(w, bag))
        = (BagToSet(bag) \ asking) \cup {Now(r) : r \in asking}
  BY Zenon DEF Permitted, Restricted, BagToSet, BagOfAll, (+)
<1>2. CASE x \in BagToSet(bag) \ asking
  BY <1>2, LaterReflexive
<1>3. CASE x \in {Now(r) : r \in asking}
  <2>1. PICK r \in asking : x = Now(r)
    BY <1>3
  <2>2. WellFormed(r)
    OBVIOUS
  <2>3. Later(x, r) /\ x.allowed
    BY <2>1, <2>2 DEF Later, WellFormed
  <2>4. QED
    BY <2>1, <2>3
<1>4. QED
  BY <1>1, <1>2, <1>3

-----------------------------------------------------------------------------
(* The access log *)

\* The logs that are read: no longer than LOG_LIMIT.
AccessLog == {log \in Seq(Lenders) : Len(log) <= LOG_LIMIT}

\* A log with a new entry.
Logged(l, log) == Newest(<<l>> \o log)

\* An entry is the first of the new log, and the entries before it are there
\* still unless the log is full.
LEMMA EntryLogged ==
    \A log \in AccessLog, l \in Lenders : \A newer : newer = Logged(l, log) =>
           /\ newer \in AccessLog
           /\ 1 \in DOMAIN newer /\ newer[1] = l
           /\ \A k : (\E i \in DOMAIN log : log[i] = k)
                    => ((\E i \in DOMAIN newer : newer[i] = k) \/ Len(newer) = LOG_LIMIT)
<1> TAKE log \in AccessLog, l \in Lenders
<1> TAKE newer
<1> HAVE newer = Logged(l, log)
<1>1. log \in Seq(Lenders) /\ Len(log) \in Nat /\ LOG_LIMIT \in Nat \ {0}
  BY ConsentAssumption DEF AccessLog
<1> DEFINE all == <<l>> \o log
           n == IF Len(all) < LOG_LIMIT THEN Len(all) ELSE LOG_LIMIT
<1>2. /\ all \in Seq(Lenders) /\ Len(all) = Len(log) + 1 /\ all[1] = l
      /\ \A i \in 1 .. Len(log) : all[i + 1] = log[i]
  BY <1>1
<1>3. n \in 1 .. Len(all) /\ n <= LOG_LIMIT
  BY <1>1, <1>2
<1> HIDE DEF all
<1>4. newer = SubSeq(all, 1, n)
  BY DEF Logged, Newest, all
<1> HIDE DEF n
<1>5. /\ newer \in Seq(Lenders) /\ Len(newer) = n
      /\ \A i \in 1 .. n : newer[i] = all[i]
  BY <1>2, <1>3, <1>4, SubSeqProperties
<1>6. newer \in AccessLog /\ 1 \in DOMAIN newer /\ newer[1] = l
  BY <1>1, <1>2, <1>3, <1>5 DEF AccessLog
<1>7. ASSUME NEW i \in DOMAIN log, Len(newer) # LOG_LIMIT
      PROVE  i + 1 \in DOMAIN newer /\ newer[i + 1] = log[i]
  BY <1>1, <1>2, <1>3, <1>5, <1>7 DEF n
<1>8. QED
  BY <1>6, <1>7

\* A full log stays full.
LEMMA LogStaysFull ==
    ASSUME NEW log \in AccessLog, Len(log) = LOG_LIMIT, NEW l \in Lenders
    PROVE  Len(Logged(l, log)) = LOG_LIMIT
<1>1. log \in Seq(Lenders) /\ LOG_LIMIT \in Nat \ {0}
  BY ConsentAssumption DEF AccessLog
<1>2. PICK all : all = <<l>> \o log
  OBVIOUS
<1>3. all \in Seq(Lenders) /\ Len(all) = LOG_LIMIT + 1
  BY <1>1, <1>2
<1>4. Len(SubSeq(all, 1, LOG_LIMIT)) = LOG_LIMIT
  BY <1>1, <1>3, SubSeqProperties
<1>5. QED
  BY <1>1, <1>2, <1>3, <1>4 DEF Logged, Newest

-----------------------------------------------------------------------------
(* What the tables say of every request that is under way *)

Statuses == {None, "granted", "revoked"}

TablesOK ==
    /\ DOMAIN parcels = Parcels
    /\ consents \in [Wallets -> Statuses]
    /\ consent_access_log \in [Wallets -> AccessLog]

\* A full answer is the handler's decision on a profile; the dashboard asks for
\* wallets only, and the requests that name a row name a parcel.
RequestOK(r) ==
    /\ WellFormed(r)
    /\ r.parcel \in Parcels \cup {None}
    /\ r.op \in {"profile", "search", "register"} => r.parcel \in Parcels
    /\ r.op \in {"register", "lien"} => r.tab = "wizard"
    /\ r.tab = "dashboard" => r.op # "profile" /\ r.wallet \in Wallets
    /\ r.answer = "full" => r.op = "profile" /\ r.stage # "sent" /\ (r.allowed \/ r.failed)

Entered(r) ==
    \/ \E i \in DOMAIN consent_access_log[parcels[r.parcel]] :
         consent_access_log[parcels[r.parcel]][i] = KeyOf(r.tab)
    \/ Len(consent_access_log[parcels[r.parcel]]) = LOG_LIMIT

HasRow(r) ==
    parcels[r.parcel] \in Wallets /\ consents[parcels[r.parcel]] # None

IsRevoked(r) ==
    parcels[r.parcel] \in Wallets /\ consents[parcels[r.parcel]] = "revoked"

\* Rows of parcels keep their owner and rows of consents are not deleted, so
\* that what was known is known still; what nobody has allowed since it was sent
\* is revoked still; and an entry, once made, stays until LOG_LIMIT others come.
ProfileOK(r) ==
    r.op = "profile" =>
        /\ r.known => HasRow(r)
        /\ (r.stage = "sent" /\ ~r.allowed) => IsRevoked(r)
        /\ (r.stage = "logged" /\ r.known /\ ~r.failed) => Entered(r)

Sound(r) == RequestOK(r) /\ ProfileOK(r)

ConsentInv == TablesOK /\ \A r \in Requests : Sound(r)

\* What the pages may do to the tables: they give parcels without a row a row,
\* and wallets any consent but none.
TablesEvolve ==
    /\ DOMAIN parcels' = Parcels
    /\ \A p \in Parcels : parcels[p] # None => parcels'[p] = parcels[p]
    /\ consents' \in [Wallets -> Statuses]
    /\ \A w \in Wallets : consents[w] # None => consents'[w] # None
    /\ consent_access_log' = consent_access_log

\* A request for a profile is sound when it is sent.
LEMMA AskedSound ==
    ASSUME NEW tab, tab # "dashboard", NEW p \in Parcels, TablesOK
    PROVE  Sound(AskProfile(tab, p))
<1>1. PICK r : r = AskProfile(tab, p)
  OBVIOUS
<1>2. /\ WellFormed(r)
      /\ r.tab = tab /\ r.op = "profile" /\ r.parcel = p
      /\ r.stage = "sent" /\ r.answer = None
  BY <1>1, FreshProfile
<1>3. /\ r.known => (parcels[p] \in Wallets /\ consents[parcels[p]] # None)
      /\ ~r.allowed => (parcels[p] \in Wallets /\ ~Permits(parcels[p]))
  BY <1>1, FreshProfile, Zenon
<1>4. RequestOK(r)
  BY <1>2, ConsentAssumption DEF RequestOK
<1>5. ProfileOK(r)
  BY <1>2, <1>3 DEF ProfileOK, HasRow, IsRevoked, Permits
<1>6. QED
  BY <1>1, <1>4, <1>5 DEF Sound

\* So is any other request.
LEMMA OtherSound ==
    ASSUME NEW r, WellFormed(r), r.op # "profile", r.parcel \in Parcels \cup {None},
           r.op \in {"search", "register"} => r.parcel \in Parcels,
           r.op \in {"register", "lien"} => r.tab = "wizard",
           r.tab = "dashboard" => r.wallet \in Wallets,
           r.answer # "full"
    PROVE  Sound(r)
BY DEF Sound, RequestOK, ProfileOK

\* What was sound stays sound while the tables evolve, if no revocation is
\* lifted behind the back of a request.
LEMMA SoundLater ==
    ASSUME TablesOK, TablesEvolve, NEW r, Sound(r), NEW x, Later(x, r),
           (x.op = "profile" /\ ~x.allowed /\ IsRevoked(x))
             => consents'[parcels[x.parcel]] = "revoked"
    PROVE  Sound(x)'
<1>1. RequestOK(x)'
  BY DEF Sound, RequestOK, Later, WellFormed
<1>2. ASSUME x.op = "profile"
      PROVE  ProfileOK(x)'
  <2>1. r.op = "profile" /\ x.parcel \in Parcels /\ r.parcel = x.parcel
    BY <1>2 DEF Later, Sound, RequestOK
  <2>2. parcels[x.parcel] \in Wallets => parcels'[x.parcel] = parcels[x.parcel]
    BY <2>1, ConsentAssumption DEF TablesEvolve
  <2>3. x.known => HasRow(x)'
    BY <2>1, <2>2 DEF Later, Sound, ProfileOK, HasRow, TablesEvolve
  <2>4. (x.stage = "sent" /\ ~x.allowed) => IsRevoked(x)'
    BY <1>2, <2>1, <2>2 DEF Later, Sound, ProfileOK, IsRevoked
  <2>5. (x.stage = "logged" /\ x.known /\ ~x.failed) => Entered(x)'
    BY <2>1, <2>2 DEF Later, Sound, ProfileOK, HasRow, Entered, TablesEvolve, KeyOf
  <2>6. QED
    BY <2>3, <2>4, <2>5 DEF ProfileOK
<1>3. ASSUME x.op # "profile"
      PROVE  ProfileOK(x)'
  BY <1>3 DEF ProfileOK
<1>4. ProfileOK(x)'
  BY <1>2, <1>3
<1>5. QED
  BY <1>1, <1>4 DEF Sound

\* Tables that a step leaves alone evolve.
LEMMA SameTables ==
    TablesOK /\ UNCHANGED <<parcels, consents, consent_access_log>> => TablesEvolve
BY DEF TablesOK, TablesEvolve

-----------------------------------------------------------------------------
(* The handler *)

\* The request that the handler takes a step further, and those it does not.
LEMMA Stepped ==
    ASSUME NEW r, NEW y, pending' = (pending (-) Only(r)) (+) Only(y),
           NEW x \in Requests'
    PROVE  x \in Requests \/ x = y
BY RequestsOfBags DEF Requests

\* A profile is decided on in full only for a request that is allowed or whose
\* query failed: what is not allowed finds the consent revoked.
LEMMA ConsentCheckedSound ==
    ASSUME ConsentInv, NEW r \in Requests, ConsentChecked(r)
    PROVE  ConsentInv'
<1>1. PICK failed \in BOOLEAN :
        pending' = (pending (-) Only(r)) (+)
            Only([r EXCEPT !.stage = "checked", !.failed = failed,
                           !.answer = IF CheckConsent(r, failed) THEN "full" ELSE "masked"])
  BY DEF ConsentChecked
<1>2. PICK y : y = [r EXCEPT !.stage = "checked", !.failed = failed,
                             !.answer = IF CheckConsent(r, failed) THEN "full" ELSE "masked"]
  OBVIOUS
<1>3. Sound(r) /\ r.op = "profile" /\ r.stage = "sent" /\ r.parcel \in Parcels
  BY DEF ConsentInv, ConsentChecked, Sound, RequestOK
<1>4. WellFormed(r)
  BY <1>3 DEF Sound, RequestOK
<1>5. /\ WellFormed(y)
      /\ y.tab = r.tab /\ y.op = r.op /\ y.parcel = r.parcel /\ y.wallet = r.wallet
      /\ y.known = r.known /\ y.allowed = r.allowed
      /\ y.stage = "checked" /\ y.failed = failed
      /\ y.answer = IF CheckConsent(r, failed) THEN "full" ELSE "masked"
  BY <1>2, <1>4 DEF WellFormed
<1>6. (CheckConsent(r, failed) /\ ~r.allowed) => failed
  <2>1. ~r.allowed => IsRevoked(r)
    BY <1>3 DEF Sound, ProfileOK
  <2>2. "revoked" \notin {None, "granted"}
    BY ConsentAssumption
  <2>3. QED
    BY <2>1, <2>2 DEF CheckConsent, IsRevoked
<1>7. RequestOK(y)
  BY <1>3, <1>5, <1>6 DEF RequestOK, Sound
<1>8. r.known => HasRow(r)
  BY <1>3 DEF Sound, ProfileOK
<1>9. ProfileOK(y)
  BY <1>5, <1>8 DEF ProfileOK, HasRow
<1>10. TablesOK /\ TablesEvolve /\ TablesOK'
  BY SameTables DEF ConsentInv, ConsentChecked, tableVars, TablesOK
<1>11. ASSUME NEW x \in Requests' PROVE Sound(x)'
  <2>1. Sound(x)
    BY <1>1, <1>2, <1>7, <1>9, <1>11, Stepped DEF ConsentInv, Sound
  <2>2. Later(x, x)
    BY <2>1, LaterReflexive DEF Sound, RequestOK
  <2>3. IsRevoked(x) => consents'[parcels[x.parcel]] = "revoked"
    BY DEF ConsentChecked, tableVars, IsRevoked
  <2>4. QED
    BY <1>10, <2>1, <2>2, <2>3, SoundLater
<1>12. QED
  BY <1>10, <1>11 DEF ConsentInv

\* The log keeps its entries or is full, and a request of a farmer with a row is
\* entered unless a query fails.
LEMMA LogAccessEffect ==
    ASSUME TablesOK, NEW r, NEW failed \in BOOLEAN,
           consent_access_log' = LogAccess(r, failed), UNCHANGED parcels
    PROVE  /\ consent_access_log' \in [Wallets -> AccessLog]
           /\ \A x : (parcels[x.parcel] \in Wallets /\ Entered(x)) => Entered(x)'
           /\ (HasRow(r) /\ ~failed) => Entered(r)'
<1> DEFINE owner == parcels[r.parcel]
           newer == Logged(KeyOf(r.tab), consent_access_log[owner])
<1>1. CASE HasRow(r) /\ ~failed
  <2>1. owner \in Wallets /\ consent_access_log[owner] \in AccessLog
    BY <1>1 DEF HasRow, TablesOK
  <2>2. KeyOf(r.tab) \in Lenders
    BY ConsentAssumption DEF KeyOf
  <2>3. /\ newer \in AccessLog
        /\ 1 \in DOMAIN newer /\ newer[1] = KeyOf(r.tab)
        /\ \A k : (\E i \in DOMAIN consent_access_log[owner] : consent_access_log[owner][i] = k)
                => ((\E i \in DOMAIN newer : newer[i] = k) \/ Len(newer) = LOG_LIMIT)
    <3>1. PICK log \in AccessLog : log = consent_access_log[owner]
      BY <2>1
    <3>2. PICK l \in Lenders : l = KeyOf(r.tab)
      BY <2>2
    <3>3. PICK n : n = Logged(l, log)
      OBVIOUS
    <3>4. /\ n \in AccessLog
          /\ 1 \in DOMAIN n /\ n[1] = l
          /\ \A k : (\E i \in DOMAIN log : log[i] = k)
                => ((\E i \in DOMAIN n : n[i] = k) \/ Len(n) = LOG_LIMIT)
      BY <3>3, EntryLogged
    <3>5. QED
      BY <3>1, <3>2, <3>3, <3>4
  <2>4. consent_access_log' = [consent_access_log EXCEPT ![owner] = newer]
    BY <1>1 DEF LogAccess, HasRow, Logged
  <2> HIDE DEF newer
  <2>5. /\ consent_access_log' \in [Wallets -> AccessLog]
        /\ consent_access_log'[owner] = newer
        /\ \A w \in Wallets : w # owner => consent_access_log'[w] = consent_access_log[w]
    BY <2>1, <2>3, <2>4 DEF TablesOK
  <2>6. Entered(r)'
    BY <2>3, <2>5 DEF Entered, KeyOf
  <2>7. ASSUME NEW x, parcels[x.parcel] \in Wallets, Entered(x)
        PROVE  Entered(x)'
    <3>1. CASE parcels[x.parcel] = owner
      <4>1. \/ \E i \in DOMAIN consent_access_log[owner] :
                 consent_access_log[owner][i] = KeyOf(x.tab)
            \/ Len(consent_access_log[owner]) = LOG_LIMIT
        BY <2>7, <3>1 DEF Entered
      <4>2. Len(consent_access_log[owner]) = LOG_LIMIT => Len(newer) = LOG_LIMIT
        BY <2>1, <2>2, LogStaysFull DEF newer
      <4>3. (\E i \in DOMAIN newer : newer[i] = KeyOf(x.tab)) \/ Len(newer) = LOG_LIMIT
        BY <4>1, <4>2, <2>3
      <4>4. QED
        BY <4>3, <3>1, <2>5 DEF Entered, KeyOf
    <3>2. CASE parcels[x.parcel] # owner
      BY <2>5, <2>7, <3>2 DEF Entered, KeyOf
    <3>3. QED
      BY <3>1, <3>2
  <2>8. QED
    BY <2>5, <2>6, <2>7
<1>2. CASE ~(HasRow(r) /\ ~failed)
  <2>1. consent_access_log' = consent_access_log
    BY <1>2 DEF LogAccess, HasRow
  <2>2. QED
    BY <1>2, <2>1 DEF TablesOK, Entered, KeyOf
<1>3. QED
  BY <1>1, <1>2

\* The second step of the handler keeps what is said of every request.
LEMMA AccessLoggedSound ==
    ASSUME ConsentInv, NEW r \in Requests, AccessLogged(r)
    PROVE  ConsentInv'
<1>1. PICK failed \in BOOLEAN :
        /\ consent_access_log' = LogAccess(r, failed)
        /\ pending' = (pending (-) Only(r)) (+)
             Only([r EXCEPT !.stage = "logged", !.failed = @ \/ failed])
  BY DEF AccessLogged
<1>2. PICK y : y = [r EXCEPT !.stage = "logged", !.failed = @ \/ failed]
  OBVIOUS
<1>3. Sound(r) /\ r.op = "profile" /\ r.stage = "checked" /\ r.parcel \in Parcels
  BY DEF ConsentInv, AccessLogged, Sound, RequestOK
<1>4. WellFormed(r)
  BY <1>3 DEF Sound, RequestOK
<1>5. /\ WellFormed(y)
      /\ y.tab = r.tab /\ y.op = r.op /\ y.parcel = r.parcel /\ y.wallet = r.wallet
      /\ y.known = r.known /\ y.allowed = r.allowed /\ y.answer = r.answer
      /\ y.stage = "logged"
  BY <1>2, <1>4 DEF WellFormed
<1>6. y.failed <=> (r.failed \/ failed)
  BY <1>2, <1>4 DEF WellFormed
<1>7. /\ consent_access_log' \in [Wallets -> AccessLog]
      /\ \A x : (parcels[x.parcel] \in Wallets /\ Entered(x)) => Entered(x)'
      /\ (HasRow(r) /\ ~failed) => Entered(r)'
  BY <1>1, LogAccessEffect DEF ConsentInv, AccessLogged
<1>8. TablesOK'
  BY <1>7 DEF AccessLogged, ConsentInv, TablesOK
<1>9. RequestOK(y)
  BY <1>3, <1>5, <1>6 DEF RequestOK, Sound
<1>10. Sound(y)'
  <2>1. r.known => HasRow(r)
    BY <1>3 DEF Sound, ProfileOK
  <2>2. y.known => HasRow(y)'
    BY <1>5, <2>1 DEF HasRow, AccessLogged
  <2>3. (y.known /\ ~y.failed) => Entered(y)'
    BY <1>5, <1>6, <1>7, <2>1 DEF Entered
  <2>4. ProfileOK(y)'
    BY <1>5, <2>2, <2>3 DEF ProfileOK
  <2>5. QED
    BY <1>9, <2>4 DEF Sound, RequestOK
<1>11. ASSUME NEW x \in Requests PROVE Sound(x)'
  <2>1. RequestOK(x) /\ ProfileOK(x)
    BY <1>11 DEF ConsentInv, Sound
  <2>2. UNCHANGED <<parcels, consents>>
    BY DEF AccessLogged
  <2>3. (x.op = "profile" /\ x.stage = "logged" /\ x.known /\ ~x.failed) => Entered(x)'
    BY <1>7, <2>1 DEF ProfileOK, HasRow
  <2>4. ProfileOK(x)'
    BY <2>1, <2>2, <2>3 DEF ProfileOK, HasRow, IsRevoked
  <2>5. QED
    BY <2>1, <2>4 DEF Sound, RequestOK
<1>12. ASSUME NEW x \in Requests' PROVE Sound(x)'
  BY <1>1, <1>2, <1>10, <1>11, Stepped
<1>13. QED
  BY <1>8, <1>12 DEF ConsentInv

=============================================================================
