------------------------ MODULE ResourceOwnershipProofs ------------------------
(***************************************************************************)
(* Safety of learned ownership for any paths, ids, users and parameters.   *)
(* Inv adds to the properties that confirmed keys have a row and what the  *)
(* first lookup of a detection has established.  What a scan learns rests  *)
(* on the loop over the counts of a key, in whatever order it visits them: *)
(* Leads is its invariant, and the least turn that broke it would be a     *)
(* counterexample to VisitLeads.                                           *)
(***************************************************************************)
EXTENDS ResourceOwnership, FiniteSetTheorems, WellFoundedInduction, TLAPS

\* Only rows can be confirmed, and no code deletes a row.
ConfirmedInv == confirmed \subseteq {k \in Key : owner[k] # NoUser}

\* Between its lookups a detection has an owner, in the table and still in the
\* cache, who is somebody else as long as the cache is not replaced.
DetectionInv ==
  detectorPc = "getOwner" =>
    /\ request.path \in ResourceUrl
    /\ owner[DetectorKey(request.path)] # NoUser
    /\ CachedOwner # NoUser
    /\ ~torn => CachedOwner # request.user

Inv == /\ TypeOK
       /\ ConfirmedInv
       /\ DetectionInv
       /\ CacheFollowsTable
       /\ ViolationsNameOwner

-------------------------------------------------------------------------------
\* The counts of a key are numbers, none above their sum.
LEMMA CountsAreNumbers ==
  ASSUME NEW k, NEW user
  PROVE  /\ AccessCount(k, user) \in Nat
         /\ TotalAccesses(k) \in Nat
         /\ AccessCount(k, user) <= TotalAccesses(k)
<1> DEFINE Paths == {u \in ResourceUrl : ScannerKey(u) = k}
           Group == {a \in Accesses(k) : a[1][2] = user}
<1>1. IsFiniteSet(Paths)
  <2>1. Paths \in SUBSET Url
    BY DEF ResourceUrl
  <2> QED
    BY <2>1, UrlAssumption, FS_Subset
<1>2. IsFiniteSet(StoredUser)
  BY UserAssumption, FS_AddElement DEF StoredUser
<1>3. IsFiniteSet(1 .. MaxAccess)
  BY ParameterAssumption, FS_Interval
<1>4. IsFiniteSet((Paths \X StoredUser) \X (1 .. MaxAccess))
  <2> HIDE DEF Paths
  <2>1. IsFiniteSet(Paths \X StoredUser)
    BY <1>1, <1>2, FS_Product
  <2> QED
    BY <2>1, <1>3, FS_Product
<1>5. IsFiniteSet(Accesses(k))
  <2>1. Accesses(k) \in SUBSET ((Paths \X StoredUser) \X (1 .. MaxAccess))
    BY DEF Accesses
  <2> QED
    BY <1>4, <2>1, FS_Subset
<1>6. Group \in SUBSET Accesses(k)
  OBVIOUS
<1>7. IsFiniteSet(Group) /\ Cardinality(Group) <= Cardinality(Accesses(k))
  BY <1>5, <1>6, FS_Subset
<1> QED
  BY <1>5, <1>7, FS_CardinalityType DEF AccessCount, TotalAccesses

\* What the loop over a key's counts knows after it has seen some users.
Leads(k, top, seen) ==
  /\ top \in [user : StoredUser, count : Nat, ties : Nat]
  /\ \A user \in seen : AccessCount(k, user) <= top.count
  /\ top.count = 0 => top.user = NoUser
  /\ top.count > 0 =>
       /\ top.user \in seen
       /\ AccessCount(k, top.user) = top.count
       /\ top.ties > 0
       /\ top.ties = 1 <=> \A other \in seen \ {top.user} :
                             AccessCount(k, other) < top.count

\* One turn of the loop takes a user it has not seen into account.
LEMMA VisitLeads ==
  ASSUME NEW k, NEW seen \in SUBSET StoredUser, NEW user \in StoredUser \ seen,
         NEW top, Leads(k, top, seen)
  PROVE  Leads(k, Visit(k, top, user), seen \cup {user})
<1> DEFINE Count(other) == AccessCount(k, other)
           Next1 == Visit(k, top, user)
           All == seen \cup {user}
<1> HIDE DEF Count
<1>1. \A other : Count(other) \in Nat
  BY CountsAreNumbers DEF Count
<1>2. top \in [user : StoredUser, count : Nat, ties : Nat]
  BY DEF Leads
<1>3. /\ \A other \in seen : Count(other) <= top.count
      /\ top.count = 0 => top.user = NoUser
      /\ top.count > 0 =>
           /\ top.user \in seen
           /\ Count(top.user) = top.count
           /\ top.ties > 0
           /\ top.ties = 1 <=> \A other \in seen \ {top.user} :
                                 Count(other) < top.count
  BY DEF Leads, Count
<1>4. Next1 = CASE Count(user) > top.count -> Leader(user, Count(user))
                [] Count(user) > 0 /\ Count(user) = top.count ->
                     [top EXCEPT !.ties = @ + 1]
                [] OTHER -> top
  BY DEF Visit, Count
<1> HIDE DEF Next1
<1> SUFFICES
      /\ Next1 \in [user : StoredUser, count : Nat, ties : Nat]
      /\ \A other \in All : Count(other) <= Next1.count
      /\ Next1.count = 0 => Next1.user = NoUser
      /\ Next1.count > 0 =>
           /\ Next1.user \in All
           /\ Count(Next1.user) = Next1.count
           /\ Next1.ties > 0
           /\ Next1.ties = 1 <=> \A other \in All \ {Next1.user} :
                                   Count(other) < Next1.count
  BY DEF Leads, Count, Next1
<1>5. CASE Count(user) > top.count
  <2>1. Next1 = [user |-> user, count |-> Count(user), ties |-> 1]
    BY <1>1, <1>2, <1>4, <1>5 DEF Leader
  <2>2. \A other \in seen : Count(other) < Count(user)
    BY <1>1, <1>2, <1>3, <1>5
  <2> QED
    BY <1>1, <1>2, <1>5, <2>1, <2>2
<1>6. CASE Count(user) > 0 /\ Count(user) = top.count
  <2>1. /\ Next1 = [top EXCEPT !.ties = @ + 1]
        /\ Next1.user = top.user /\ Next1.count = top.count
        /\ Next1.ties = top.ties + 1
        /\ Next1 \in [user : StoredUser, count : Nat, ties : Nat]
    BY <1>1, <1>2, <1>4, <1>6
  <2>2. user \in All \ {top.user} /\ ~(Count(user) < top.count)
    BY <1>1, <1>2, <1>3, <1>6
  <2> QED
    BY <1>1, <1>2, <1>3, <1>6, <2>1, <2>2
<1>7. CASE Count(user) < top.count \/ Count(user) = 0
  <2>1. Next1 = top
    BY <1>1, <1>2, <1>4, <1>7
  <2>2. Count(user) <= top.count
    BY <1>1, <1>2, <1>7
  <2>3. top.count > 0 => Count(user) < top.count
    BY <1>1, <1>2, <1>7
  <2> QED
    BY <1>1, <1>2, <1>3, <2>1, <2>2, <2>3
<1> QED
  BY <1>1, <1>2, <1>5, <1>6, <1>7

\* Numbers up to a bound have a least one.
LEMMA Least ==
  ASSUME NEW n \in Nat, NEW S \in SUBSET (0 .. n), S # {}
  PROVE  \E m \in S : \A i \in S : m <= i
<1>1. S \subseteq Nat
  OBVIOUS
<1>2. PICK m \in S : \A i \in S : ~(<<i, m>> \in OpToRel(<, Nat))
  BY <1>1, NatLessThanWellFounded, WFMin
<1>3. \A i \in S : ~(i < m)
  BY <1>1, <1>2 DEF OpToRel
<1> QED
  BY <1>1, <1>3

\* The leaders after each of the first n turns of the loop.
Turns(k, order, n, top) ==
  top = [i \in 0 .. n |-> IF i = 0 THEN NoLeader
                          ELSE Visit(k, top[i - 1], order[i])]

\* The loop over any number of users has such leaders.
LEMMA TurnsExist ==
  ASSUME NEW k, NEW order, NEW n \in Nat
  PROVE  \E top : Turns(k, order, n, top)
<1> DEFINE Bad == {m \in 0 .. n : ~ \E top : Turns(k, order, m, top)}
<1> SUFFICES ASSUME Bad # {} PROVE FALSE
  OBVIOUS
<1>1. PICK m \in Bad : \A i \in Bad : m <= i
  <2>1. Bad \in SUBSET (0 .. n)
    OBVIOUS
  <2> QED
    BY <2>1, Least
<1>2. CASE m = 0
  <2> DEFINE top == [i \in 0 .. 0 |-> NoLeader]
  <2>1. Turns(k, order, 0, top)
    BY DEF Turns
  <2> QED
    BY <1>1, <1>2, <2>1
<1>3. CASE m > 0
  <2>1. m - 1 \in 0 .. n /\ ~(m <= m - 1)
    BY <1>3
  <2>2. m - 1 \notin Bad
    BY <1>1, <2>1
  <2>3. PICK old : Turns(k, order, m - 1, old)
    BY <2>1, <2>2
  <2>4. old = [i \in 0 .. m - 1 |-> IF i = 0 THEN NoLeader
                                    ELSE Visit(k, old[i - 1], order[i])]
    BY <2>3 DEF Turns
  <2> DEFINE top == [i \in 0 .. m |->
                       IF i = m THEN Visit(k, old[m - 1], order[m]) ELSE old[i]]
  <2>5. \A i \in 0 .. m - 1 : top[i] = old[i]
    OBVIOUS
  <2>6. top[m] = Visit(k, old[m - 1], order[m])
    BY <1>3
  <2>7. ASSUME NEW i \in 0 .. m
        PROVE  top[i] = IF i = 0 THEN NoLeader
                        ELSE Visit(k, top[i - 1], order[i])
    <3> HIDE DEF top
    <3>1. CASE i = m
      BY <1>3, <2>5, <2>6, <3>1
    <3>2. CASE i = 0
      BY <1>3, <2>4, <2>5, <3>2
    <3>3. CASE i # m /\ i # 0
      <4>1. i \in 0 .. m - 1 /\ i - 1 \in 0 .. m - 1
        BY <3>3
      <4> QED
        BY <2>4, <2>5, <3>3, <4>1
    <3> QED
      BY <3>1, <3>2, <3>3
  <2>8. Turns(k, order, m, top)
    BY <2>7 DEF Turns
  <2> QED
    BY <2>8
<1> QED
  BY <1>2, <1>3

\* Whatever the order, the loop ends with the leader among all users.
LEMMA TopUserLeads ==
  ASSUME NEW k, NEW order \in Order
  PROVE  Leads(k, TopUser(k, order), StoredUser)
<1> DEFINE n == Cardinality(StoredUser)
           Seen(i) == {order[j] : j \in 1 .. i}
<1>1. IsFiniteSet(StoredUser) /\ n \in Nat
  BY UserAssumption, FS_AddElement, FS_CardinalityType DEF StoredUser
<1>2. /\ order \in [1 .. n -> StoredUser]
      /\ \A i, j \in 1 .. n : i # j => order[i] # order[j]
  BY DEF Order, SetToSeqs
<1>3. Len(order) = n
  <2>1. order \in Seq(StoredUser) /\ DOMAIN order = 1 .. n
    BY <1>1, <1>2
  <2>2. DOMAIN order = 1 .. Len(order) /\ Len(order) \in Nat
    BY <2>1
  <2> HIDE DEF n
  <2> QED
    BY <1>1, <2>1, <2>2
<1> HIDE DEF n
<1>4. PICK top : Turns(k, order, n, top) /\ TopUser(k, order) = top[n]
  <2> DEFINE N == Len(order)
             t == CHOOSE top : Turns(k, order, N, top)
  <2>1. TopUser(k, order) = t[N]
    BY DEF TopUser, Turns
  <2>2. Turns(k, order, N, t)
    <3> HIDE DEF N
    <3>1. N \in Nat
      BY <1>1, <1>3 DEF N
    <3>2. \E top : Turns(k, order, N, top)
      BY <3>1, TurnsExist
    <3> QED
      BY <3>2
  <2> HIDE DEF t
  <2> QED
    BY <1>3, <2>1, <2>2
<1>5. ASSUME NEW i \in 0 .. n
      PROVE  top[i] = IF i = 0 THEN NoLeader
                      ELSE Visit(k, top[i - 1], order[i])
  BY <1>4 DEF Turns
<1>6. Leads(k, top[n], Seen(n))
  <2> DEFINE Bad == {i \in 0 .. n : ~Leads(k, top[i], Seen(i))}
  <2> SUFFICES ASSUME Bad # {} PROVE FALSE
    BY <1>1
  <2>1. PICK i \in Bad : \A j \in Bad : i <= j
    <3>1. Bad \in SUBSET (0 .. n)
      OBVIOUS
    <3> QED
      BY <1>1, <3>1, Least
  <2>2. CASE i = 0
    <3>1. top[0] = NoLeader
      BY <1>1, <1>5
    <3>2. NoLeader \in [user : StoredUser, count : Nat, ties : Nat]
      BY DEF NoLeader, StoredUser
    <3>3. Seen(0) = {}
      OBVIOUS
    <3>4. Leads(k, NoLeader, {})
      BY <3>2 DEF Leads, NoLeader
    <3> QED
      BY <2>2, <3>1, <3>3, <3>4
  <2>3. CASE i > 0
    <3>1. i \in 1 .. n /\ i - 1 \in 0 .. n /\ ~(i <= i - 1)
      BY <1>1, <2>3
    <3>2. Leads(k, top[i - 1], Seen(i - 1))
      BY <2>1, <3>1
    <3>3. order[i] \in StoredUser \ Seen(i - 1)
      BY <1>1, <1>2, <3>1
    <3>4. Seen(i - 1) \in SUBSET StoredUser
      BY <1>1, <1>2, <3>1
    <3>5. Seen(i) = Seen(i - 1) \cup {order[i]}
      BY <1>1, <3>1
    <3>6. top[i] = Visit(k, top[i - 1], order[i])
      BY <1>5, <3>1
    <3> HIDE DEF Seen
    <3>7. Leads(k, top[i], Seen(i))
      BY <3>2, <3>3, <3>4, <3>5, <3>6, VisitLeads
    <3> QED
      BY <3>7
  <2> QED
    BY <1>1, <2>2, <2>3
<1>7. Seen(n) = StoredUser
  <2>1. order \in Injection(1 .. n, StoredUser)
    BY <1>2 DEF Injection, IsInjective
  <2>2. Cardinality(1 .. n) = n
    BY <1>1, FS_Interval
  <2>3. order \in Surjection(1 .. n, StoredUser)
    BY <1>1, <2>1, <2>2, FS_Injection DEF n
  <2> QED
    BY <1>2, <2>3 DEF Surjection
<1> QED
  BY <1>4, <1>6, <1>7

-------------------------------------------------------------------------------
\* A leader is eligible exactly if it is the documented owner.
LEMMA EligibleIsSoleTop ==
  ASSUME NEW k, NEW top, Leads(k, top, StoredUser),
         NEW minSample \in Nat, NEW dominance \in Nat
  PROVE  /\ Eligible(k, top, minSample, dominance) =>
              /\ top.user \in User
              /\ SoleTop(k, top.user, dominance)
              /\ TotalAccesses(k) >= minSample
         /\ ~Eligible(k, top, minSample, dominance) =>
              \/ \A user \in User : ~SoleTop(k, user, dominance)
              \/ TotalAccesses(k) < minSample
<1> DEFINE Count(user) == AccessCount(k, user)
           Total == TotalAccesses(k)
<1> HIDE DEF Count, Total
<1>1. Total \in Nat /\ \A user : Count(user) \in Nat /\ Count(user) <= Total
  BY CountsAreNumbers DEF Count, Total
<1>2. top \in [user : StoredUser, count : Nat, ties : Nat]
  BY DEF Leads
<1>3. /\ \A other \in StoredUser : Count(other) <= top.count
      /\ top.count = 0 => top.user = NoUser
      /\ top.count > 0 =>
           /\ Count(top.user) = top.count
           /\ top.ties = 1 <=> \A other \in StoredUser \ {top.user} :
                                 Count(other) < top.count
  BY DEF Leads, Count
<1>4. ASSUME Eligible(k, top, minSample, dominance)
      PROVE  /\ top.user \in User
             /\ SoleTop(k, top.user, dominance)
             /\ Total >= minSample
  <2>1. /\ Total >= minSample
        /\ top.user # NoUser
        /\ top.ties = 1
        /\ top.count * 100 >= dominance * Total
    BY <1>4 DEF Eligible, Total
  <2>2. top.count > 0
    BY <1>2, <1>3, <2>1
  <2>3. Count(top.user) = top.count
    BY <1>3, <2>2
  <2>4. SoleTop(k, top.user, dominance)
    <3>1. \A other \in StoredUser \ {top.user} : Count(other) < Count(top.user)
      BY <1>3, <2>1, <2>2, <2>3
    <3>2. Count(top.user) * 100 >= dominance * Total
      BY <2>1, <2>3
    <3> QED
      BY <2>1, <3>1, <3>2 DEF SoleTop, Count, Total
  <2> QED
    BY <1>2, <2>1, <2>4 DEF StoredUser
<1>5. ASSUME NEW user \in User, SoleTop(k, user, dominance),
             ~(Total < minSample)
      PROVE  Eligible(k, top, minSample, dominance)
  <2>1. /\ user # NoUser /\ user \in StoredUser /\ NoUser \in StoredUser
        /\ \A other \in StoredUser \ {user} : Count(other) < Count(user)
        /\ Count(user) * 100 >= dominance * Total
    BY <1>5 DEF SoleTop, StoredUser, Count, Total
  <2>2. Count(user) > 0
    <3>1. Count(NoUser) < Count(user)
      BY <2>1
    <3> QED
      BY <1>1, <3>1
  <2>3. Count(user) <= top.count /\ top.count > 0
    BY <1>1, <1>2, <1>3, <2>1, <2>2
  <2>4. top.user = user
    <3>1. Count(top.user) = top.count
      BY <1>3, <2>3
    <3>2. ~(Count(top.user) < Count(user))
      BY <1>1, <1>2, <2>3, <3>1
    <3> QED
      BY <1>2, <2>1, <3>2
  <2>5. Count(user) = top.count /\ top.ties = 1
    BY <1>3, <2>1, <2>3, <2>4
  <2>6. Total > 0 /\ Total >= minSample
    <3>1. Count(user) <= Total
      BY <1>1
    <3> QED
      BY <1>1, <1>5, <2>2, <3>1
  <2>7. top.count * 100 >= dominance * Total
    BY <2>1, <2>5
  <2> QED
    BY <2>1, <2>4, <2>5, <2>6, <2>7 DEF Eligible, Total
<1> QED
  BY <1>4, <1>5 DEF Total

\* A scan learns users for scanned keys, whatever the orders it counts in.
LEMMA LearnedType ==
  ASSUME NEW m \in Nat, NEW d \in Nat, NEW order \in [ScannerKeys -> Order]
  PROVE  Learned(m, d, order) \in UNION {[S -> User] : S \in SUBSET Key}
<1> DEFINE Chosen(k) == Eligible(k, TopUser(k, order[k]), m, d)
           D == {k \in ScannerKeys : Chosen(k)}
<1>1. Learned(m, d, order) = [k \in D |-> TopUser(k, order[k]).user]
  BY DEF Learned
<1>2. D \in SUBSET Key
  BY DEF Key
<1>3. \A k \in D : TopUser(k, order[k]).user \in User
  BY TopUserLeads, EligibleIsSoleTop
<1> HIDE DEF D
<1>4. Learned(m, d, order) \in [D -> User]
  BY <1>1, <1>3
<1> QED
  BY <1>2, <1>4

\* The result of a scan, while it waits to be written.
LEMMA LearnedShape ==
  ASSUME TypeOK
  PROVE  /\ DOMAIN learned \subseteq Key
         /\ \A k \in DOMAIN learned : learned[k] \in User
<1>1. PICK S \in SUBSET Key : learned \in [S -> User]
  BY DEF TypeOK
<1> QED
  BY <1>1

\* Writing a scan's result only ever adds rows.
LEMMA WriteAddsRows ==
  ASSUME Inv, WriteMappings
  PROVE  /\ \A k \in Key : owner[k] # NoUser => owner'[k] # NoUser
         /\ ConfirmedInv'
<1>1. \A k \in Key : owner'[k] = IF k \in DOMAIN learned THEN learned[k]
                                                         ELSE owner[k]
  BY DEF WriteMappings
<1>2. \A k \in DOMAIN learned : learned[k] # NoUser
  BY LearnedShape, UserAssumption DEF Inv
<1>3. \A k \in Key : owner[k] # NoUser => owner'[k] # NoUser
  BY <1>1, <1>2
<1>4. confirmed' = confirmed
  BY DEF WriteMappings, ConfirmedAfterUpsert
<1> QED
  BY <1>3, <1>4 DEF Inv, ConfirmedInv

\* A scan's empty result has the type of a result.
LEMMA EmptyType == << >> \in UNION {[S -> User] : S \in SUBSET Key}
<1>1. << >> \in [{} -> User]
  OBVIOUS
<1> QED
  BY <1>1

\* Learned ownership starts with the invariant.
LEMMA InitInv == Init => Inv
<1> SUFFICES ASSUME Init PROVE Inv
  OBVIOUS
<1>1. TypeOK
  <2>1. request \in Request
    <3>1. PICK u \in Url : TRUE
      BY UrlAssumption
    <3>2. [path |-> u, user |-> NoUser] \in Request
      BY DEF Request, StoredUser
    <3>3. \E r \in Request : r.user = NoUser
      BY <3>2
    <3> QED
      BY <3>3 DEF Init
  <2>2. stored \in [Url \X StoredUser -> 0 .. MaxAccess]
    BY ParameterAssumption DEF Init
  <2>3. owner \in [Key -> StoredUser] /\ cache \in [Key -> StoredUser]
    BY DEF Init, StoredUser
  <2>4. learned \in UNION {[S -> User] : S \in SUBSET Key}
    BY EmptyType DEF Init
  <2> QED
    BY <2>1, <2>2, <2>3, <2>4 DEF Init, TypeOK
<1>2. ConfirmedInv /\ DetectionInv /\ ViolationsNameOwner
  BY DEF Init, ConfirmedInv, DetectionInv, ViolationsNameOwner
<1>3. CacheFollowsTable
  BY DEF Init, CacheFollowsTable
<1> QED
  BY <1>1, <1>2, <1>3 DEF Inv
-------------------------------------------------------------------------------
\* Keys of requests are keys of the table.
LEMMA OwnerType == TypeOK => CachedOwner \in StoredUser
<1> SUFFICES ASSUME TypeOK PROVE CachedOwner \in StoredUser
  OBVIOUS
<1>1. \A u \in ResourceUrl : DetectorKey(u) \in Key
  BY DEF Key
<1>2. cache \in [Key -> StoredUser] /\ NoUser \in StoredUser
  BY DEF TypeOK, StoredUser
<1> QED
  BY <1>1, <1>2 DEF CachedOwner

\* Written owners are users.
LEMMA WriteType ==
  ASSUME TypeOK, WriteMappings
  PROVE  owner' \in [Key -> StoredUser] /\ confirmed' = confirmed
<1>1. \A k \in Key : (IF k \in DOMAIN learned THEN learned[k] ELSE owner[k])
                       \in StoredUser
  BY LearnedShape DEF TypeOK, StoredUser
<1> QED
  BY <1>1 DEF WriteMappings, ConfirmedAfterUpsert

\* Every step keeps the types.
LEMMA TypeStep ==
  ASSUME TypeOK, [Next]_vars
  PROVE  TypeOK'
<1>1. ASSUME NEW u \in Url, NEW user \in StoredUser, InsertRequestLog(u, user)
      PROVE  TypeOK'
  <2>1. stored' \in [Url \X StoredUser -> 0 .. MaxAccess]
    <3>1. stored[<<u, user>>] + 1 \in 0 .. MaxAccess
      BY <1>1, ParameterAssumption DEF InsertRequestLog, TypeOK
    <3> QED
      BY <1>1, <3>1 DEF InsertRequestLog, TypeOK
  <2>2. request' \in Request
    BY <1>1 DEF InsertRequestLog, Request
  <2> QED
    BY <1>1, <2>1, <2>2 DEF InsertRequestLog, TypeOK, table, scan
<1>2. CASE ShouldAlert
  BY <1>2 DEF ShouldAlert, TypeOK, table, scan
<1>3. CASE GetOwner
  <2>1. violation' \in Violation
    BY <1>3, OwnerType DEF GetOwner, TypeOK, Request, Violation
  <2> QED
    BY <1>3, <2>1 DEF GetOwner, TypeOK, table, scan
<1>4. CASE QueryAccesses
  <2>1. learned' \in UNION {[S -> User] : S \in SUBSET Key}
    BY <1>4, LearnedType, ParameterAssumption DEF QueryAccesses
  <2> QED
    BY <1>4, <2>1 DEF QueryAccesses, TypeOK, table, detection
<1>5. CASE NothingLearned
  BY <1>5 DEF NothingLearned, TypeOK, table, detection
<1>6. CASE UpsertMappings
  BY <1>6, WriteType, EmptyType DEF UpsertMappings, TypeOK, detection
<1>7. CASE UpsertMappingsFails
  <2>1. owner' \in [Key -> StoredUser] /\ confirmed' = confirmed
    BY <1>7, WriteType DEF UpsertMappingsFails, TypeOK, table
  <2>2. stale' \in BOOLEAN
    BY <1>7 DEF UpsertMappingsFails, TypeOK
  <2> QED
    BY <1>7, <2>1, <2>2, EmptyType DEF UpsertMappingsFails, TypeOK, detection
<1>8. CASE RefreshCache
  BY <1>8 DEF RefreshCache, Loaded, TypeOK, table, detection
<1>9. CASE LoadAllMappingsFails
  BY <1>9 DEF LoadAllMappingsFails, TypeOK, table, detection
<1>10. ASSUME NEW k \in Key, ConfirmUserResourceMapping(k)
       PROVE  TypeOK'
  BY <1>10 DEF ConfirmUserResourceMapping, TypeOK, scan, detection
<1>11. ASSUME NEW u \in Url, NEW user \in StoredUser, LeaveWindow(u, user)
       PROVE  TypeOK'
  <2>1. stored' \in [Url \X StoredUser -> 0 .. MaxAccess]
    <3>1. stored[<<u, user>>] - 1 \in 0 .. MaxAccess
      BY <1>11, ParameterAssumption DEF LeaveWindow, TypeOK
    <3> QED
      BY <1>11, <3>1 DEF LeaveWindow, TypeOK
  <2> QED
    BY <1>11, <2>1 DEF LeaveWindow, TypeOK, table, scan, detection
<1>12. CASE Restart
  <2>1. cache' \in [Key -> StoredUser] /\ stale' \in BOOLEAN
    BY <1>12 DEF Restart, Loaded, TypeOK, StoredUser
  <2> QED
    BY <1>12, <2>1, EmptyType DEF Restart, TypeOK, table
<1>13. CASE UNCHANGED vars
  BY <1>13 DEF vars, TypeOK
<1> QED
  BY <1>1, <1>2, <1>3, <1>4, <1>5, <1>6, <1>7, <1>8, <1>9, <1>10, <1>11,
     <1>12, <1>13 DEF Next

\* Confirmed rows stay rows.
LEMMA TableStep ==
  ASSUME Inv, [Next]_vars
  PROVE  ConfirmedInv'
<1> USE DEF Inv
<1>1. CASE UpsertMappings
  BY <1>1, WriteAddsRows DEF UpsertMappings
<1>2. CASE UpsertMappingsFails
  BY <1>2, WriteAddsRows DEF UpsertMappingsFails, ConfirmedInv, table
<1>3. ASSUME NEW k \in Key, ConfirmUserResourceMapping(k)
      PROVE  ConfirmedInv'
  BY <1>3 DEF ConfirmUserResourceMapping, ConfirmedInv
<1>4. CASE UNCHANGED table
  BY <1>4 DEF table, ConfirmedInv
<1>5. \/ UpsertMappings
      \/ UpsertMappingsFails
      \/ \E k \in Key : ConfirmUserResourceMapping(k)
      \/ UNCHANGED table
  BY DEF Next, vars, table, InsertRequestLog, ShouldAlert, GetOwner,
         QueryAccesses, NothingLearned, RefreshCache, LoadAllMappingsFails,
         LeaveWindow, Restart
<1> QED
  BY <1>1, <1>2, <1>3, <1>4, <1>5

\* The cache follows the table.
LEMMA CacheStep ==
  ASSUME Inv, [Next]_vars
  PROVE  CacheFollowsTable'
<1> USE DEF Inv
<1>1. ASSUME NEW u \in Url, NEW user \in StoredUser, InsertRequestLog(u, user)
      PROVE  CacheFollowsTable'
  BY <1>1 DEF InsertRequestLog, CacheFollowsTable, table, scan
<1>2. CASE ShouldAlert
  BY <1>2 DEF ShouldAlert, CacheFollowsTable, table, scan
<1>3. CASE GetOwner
  BY <1>3 DEF GetOwner, CacheFollowsTable, table, scan
<1>4. CASE QueryAccesses
  BY <1>4 DEF QueryAccesses, CacheFollowsTable, table
<1>5. CASE NothingLearned
  BY <1>5 DEF NothingLearned, CacheFollowsTable, table
<1>6. CASE UpsertMappings
  BY <1>6, WriteAddsRows DEF UpsertMappings, CacheFollowsTable
<1>7. CASE UpsertMappingsFails
  <2>1. CASE WriteMappings /\ stale' = TRUE
    BY <1>7, <2>1, WriteAddsRows DEF UpsertMappingsFails, CacheFollowsTable
  <2>2. CASE UNCHANGED <<table, stale>>
    BY <1>7, <2>2 DEF UpsertMappingsFails, CacheFollowsTable, table
  <2> QED
    BY <1>7, <2>1, <2>2 DEF UpsertMappingsFails
<1>8. CASE RefreshCache
  BY <1>8 DEF RefreshCache, Loaded, CacheFollowsTable, table
<1>9. CASE LoadAllMappingsFails
  BY <1>9 DEF LoadAllMappingsFails, CacheFollowsTable, table
<1>10. ASSUME NEW k \in Key, ConfirmUserResourceMapping(k)
       PROVE  CacheFollowsTable'
  BY <1>10 DEF ConfirmUserResourceMapping, CacheFollowsTable, scan
<1>11. ASSUME NEW u \in Url, NEW user \in StoredUser, LeaveWindow(u, user)
       PROVE  CacheFollowsTable'
  BY <1>11 DEF LeaveWindow, CacheFollowsTable, table, scan
<1>12. CASE Restart
  <2>1. CASE cache' = Loaded /\ stale' = FALSE
    BY <1>12, <2>1 DEF Restart, Loaded, CacheFollowsTable, table
  <2>2. CASE cache' = [k \in Key |-> NoUser] /\ stale' = TRUE
    BY <1>12, <2>2 DEF Restart, CacheFollowsTable, table
  <2> QED
    BY <1>12, <2>1, <2>2 DEF Restart
<1>13. CASE UNCHANGED vars
  BY <1>13 DEF vars, CacheFollowsTable
<1> QED
  BY <1>1, <1>2, <1>3, <1>4, <1>5, <1>6, <1>7, <1>8, <1>9, <1>10, <1>11,
     <1>12, <1>13 DEF Next

\* Rows are only ever added.
LEMMA RowsStay ==
  ASSUME Inv, [Next]_vars
  PROVE  \A k \in Key : owner[k] # NoUser => owner'[k] # NoUser
<1>1. CASE WriteMappings
  BY <1>1, WriteAddsRows
<1>2. CASE owner' = owner
  BY <1>2
<1>3. WriteMappings \/ owner' = owner
  BY DEF Next, vars, table, InsertRequestLog, ShouldAlert, GetOwner,
         QueryAccesses, NothingLearned, UpsertMappings, UpsertMappingsFails,
         RefreshCache, LoadAllMappingsFails, ConfirmUserResourceMapping,
         LeaveWindow, Restart
<1> QED
  BY <1>1, <1>2, <1>3

\* What a detection has found and reported concerns rows, which stay.
LEMMA DetectionStep ==
  ASSUME Inv, [Next]_vars
  PROVE  DetectionInv' /\ ViolationsNameOwner'
<1> DEFINE DetectedKey == DetectorKey(request.path)
<1>1. \A u \in ResourceUrl : DetectorKey(u) \in Key
  BY DEF Key
<1>2. \A k \in Key : owner[k] # NoUser => owner'[k] # NoUser
  BY RowsStay
<1>3. UNCHANGED violation /\ (torn => torn') => ViolationsNameOwner'
  BY <1>1, <1>2 DEF Inv, ViolationsNameOwner
<1>4. ASSUME NEW u \in Url, NEW user \in StoredUser, InsertRequestLog(u, user)
      PROVE  DetectionInv' /\ ViolationsNameOwner'
  BY <1>4 DEF InsertRequestLog, DetectionInv, ViolationsNameOwner
<1>5. CASE ShouldAlert
  <2>1. UNCHANGED <<owner, cache, request, violation, torn>>
    BY <1>5 DEF ShouldAlert, table
  <2>2. detectorPc' = "getOwner" => Alerts
    BY <1>5 DEF ShouldAlert
  <2>3. Alerts => request.path \in ResourceUrl
    BY DEF Alerts, CachedOwner
  <2>4. Alerts => owner[DetectedKey] # NoUser
    <3>1. Alerts => CachedOwner = cache[DetectedKey] /\ CachedOwner # NoUser
      BY DEF Alerts, CachedOwner
    <3>2. \A k \in Key : cache[k] # NoUser => owner[k] # NoUser
      BY DEF Inv, CacheFollowsTable
    <3> QED
      BY <1>1, <2>3, <3>1, <3>2
  <2>5. DetectionInv'
    BY <2>1, <2>2, <2>3, <2>4 DEF DetectionInv, Alerts, CachedOwner
  <2> QED
    BY <1>3, <2>1, <2>5
<1>6. CASE GetOwner
  <2>1. detectorPc = "getOwner" /\ DetectionInv
    BY <1>6 DEF GetOwner, Inv
  <2>2. violation' = [path |-> request.path, user |-> request.user,
                      expectedUser |-> CachedOwner]
    BY <1>6 DEF GetOwner
  <2>3. owner' = owner /\ torn' = torn /\ detectorPc' = "idle"
    BY <1>6 DEF GetOwner, table
  <2> QED
    BY <2>1, <2>2, <2>3 DEF DetectionInv, ViolationsNameOwner
<1>7. CASE RefreshCache
  <2>1. UNCHANGED <<owner, detectorPc, request, violation>> /\ cache' = owner
    BY <1>7 DEF RefreshCache, Loaded, table, detection
  <2>2. torn' = (torn \/ detectorPc # "idle")
    BY <1>7 DEF RefreshCache
  <2>3. DetectionInv'
    BY <2>1, <2>2 DEF Inv, DetectionInv, CachedOwner
  <2> QED
    BY <1>3, <2>1, <2>2, <2>3
<1>8. CASE Restart
  BY <1>3, <1>8 DEF Restart, DetectionInv
<1>9. CASE UNCHANGED <<cache, detectorPc, request, violation, torn>>
  <2>1. DetectionInv'
    BY <1>1, <1>2, <1>9 DEF Inv, DetectionInv, CachedOwner
  <2> QED
    BY <1>3, <1>9, <2>1
<1>10. [Next]_vars =>
        \/ \E u \in Url, user \in StoredUser : InsertRequestLog(u, user)
        \/ ShouldAlert
        \/ GetOwner
        \/ RefreshCache
        \/ Restart
        \/ UNCHANGED <<cache, detectorPc, request, violation, torn>>
  BY DEF Next, vars, detection, QueryAccesses, NothingLearned, UpsertMappings,
         UpsertMappingsFails, LoadAllMappingsFails,
         ConfirmUserResourceMapping, LeaveWindow
<1> QED
  BY <1>4, <1>5, <1>6, <1>7, <1>8, <1>9, <1>10

\* The inductive invariant.
THEOREM Invariance == Spec => []Inv
<1>1. Inv /\ [Next]_vars => Inv'
  BY TypeStep, TableStep, CacheStep, DetectionStep DEF Inv
<1> QED
  BY InitInv, <1>1, PTL DEF Spec

\* Type correctness of stored requests, table, cache, scan and detection.
THEOREM TypeCorrectness == Spec => []TypeOK
<1>1. Inv => TypeOK
  BY DEF Inv
<1> QED
  BY <1>1, Invariance, PTL

\* Whatever the order in which it counts, a scan learns exactly the keys with
\* a documented owner, and that owner: the sole user with the most accesses,
\* if it has the share asked for and the key the requests asked for.
THEOREM Learning == Spec => LearnsSoleTop
<1> DEFINE Step == scanPc = "idle" /\ scanPc' = "upsert"
           Documented ==
             \E minSample \in MinSamples, dominance \in Dominances :
               \A k \in ScannerKeys :
                 IF k \in DOMAIN learned'
                 THEN /\ SoleTop(k, learned'[k], dominance)
                      /\ TotalAccesses(k) >= minSample
                 ELSE \/ \A user \in User : ~SoleTop(k, user, dominance)
                      \/ TotalAccesses(k) < minSample
<1>1. [Next]_vars => [Step => Documented]_vars
  <2> SUFFICES ASSUME [Next]_vars, Step PROVE Documented
    OBVIOUS
  <2>1. QueryAccesses
    BY DEF Next, vars, scan, InsertRequestLog, ShouldAlert, GetOwner,
           NothingLearned, UpsertMappings, UpsertMappingsFails, RefreshCache,
           LoadAllMappingsFails, ConfirmUserResourceMapping, LeaveWindow,
           Restart
  <2>2. PICK m \in MinSamples, d \in Dominances,
             order \in [ScannerKeys -> Order] : learned' = Learned(m, d, order)
    BY <2>1 DEF QueryAccesses
  <2>3. m \in Nat /\ d \in Nat
    BY ParameterAssumption
  <2> DEFINE Chosen(k) == Eligible(k, TopUser(k, order[k]), m, d)
  <2>4. learned' = [k \in {k \in ScannerKeys : Chosen(k)} |->
                      TopUser(k, order[k]).user]
    BY <2>2 DEF Learned
  <2>5. ASSUME NEW k \in ScannerKeys
        PROVE  IF k \in DOMAIN learned'
               THEN /\ SoleTop(k, learned'[k], d)
                    /\ TotalAccesses(k) >= m
               ELSE \/ \A user \in User : ~SoleTop(k, user, d)
                    \/ TotalAccesses(k) < m
    <3>1. Leads(k, TopUser(k, order[k]), StoredUser)
      BY TopUserLeads
    <3>2. k \in DOMAIN learned' <=> Chosen(k)
      BY <2>4
    <3>3. Chosen(k) => learned'[k] = TopUser(k, order[k]).user
      BY <2>4
    <3> QED
      BY <2>3, <3>1, <3>2, <3>3, EligibleIsSoleTop
  <2> QED
    BY <2>5
<1> QED
  BY <1>1, PTL DEF Spec, LearnsSoleTop

\* The cache never holds an owner the table has not got, and equals the table
\* outside of a scan's last steps and of failures that are only logged.
THEOREM CacheFollows == Spec => []CacheFollowsTable
<1>1. Inv => CacheFollowsTable
  BY DEF Inv
<1> QED
  BY <1>1, Invariance, PTL

\* A recorded violation names an owner, of a resource that has a row: and
\* accuses somebody else unless a refresh fell between the two lookups.
THEOREM Detection == Spec => []ViolationsNameOwner
<1>1. Inv => ViolationsNameOwner
  BY DEF Inv
<1> QED
  BY <1>1, Invariance, PTL

\* Two scans of the same requests learn the same, although Go visits the
\* counts of a key in a different order each time.
THEOREM OrderIsIrrelevant ==
  ASSUME NEW m \in Nat, NEW d \in Nat,
         NEW one \in [ScannerKeys -> Order],
         NEW other \in [ScannerKeys -> Order]
  PROVE  Learned(m, d, one) = Learned(m, d, other)
<1> DEFINE Top(k, order) == TopUser(k, order[k])
           Chosen(k, order) == Eligible(k, Top(k, order), m, d)
<1>1. ASSUME NEW k \in ScannerKeys, NEW a \in {one, other},
             NEW b \in {one, other}, Chosen(k, a)
      PROVE  Chosen(k, b) /\ Top(k, a).user = Top(k, b).user
  <2>1. Leads(k, Top(k, a), StoredUser) /\ Leads(k, Top(k, b), StoredUser)
    BY TopUserLeads
  <2> HIDE DEF Top
  <2>2. /\ Top(k, a).user \in User
        /\ SoleTop(k, Top(k, a).user, d)
        /\ TotalAccesses(k) >= m
    BY <1>1, <2>1, EligibleIsSoleTop
  <2>3. Chosen(k, b)
    <3>1. ~(TotalAccesses(k) < m)
      BY <2>2, CountsAreNumbers
    <3> QED
      BY <2>1, <2>2, <3>1, EligibleIsSoleTop
  <2>4. Top(k, b).user \in User /\ SoleTop(k, Top(k, b).user, d)
    BY <2>1, <2>3, EligibleIsSoleTop
  <2>5. Top(k, a).user = Top(k, b).user
    <3> SUFFICES ASSUME Top(k, a).user # Top(k, b).user PROVE FALSE
      OBVIOUS
    <3> DEFINE x == Top(k, a).user
               y == Top(k, b).user
    <3>1. AccessCount(k, x) \in Nat /\ AccessCount(k, y) \in Nat
      BY CountsAreNumbers
    <3>2. x \in StoredUser \ {y} /\ y \in StoredUser \ {x}
      BY <2>2, <2>4 DEF StoredUser
    <3>3. /\ AccessCount(k, y) < AccessCount(k, x)
          /\ AccessCount(k, x) < AccessCount(k, y)
      BY <2>2, <2>4, <3>2 DEF SoleTop
    <3> QED
      BY <3>1, <3>3
  <2> QED
    BY <2>3, <2>5
<1>2. {k \in ScannerKeys : Chosen(k, one)}
        = {k \in ScannerKeys : Chosen(k, other)}
  BY <1>1
<1>3. \A k \in {k \in ScannerKeys : Chosen(k, one)} :
        Top(k, one).user = Top(k, other).user
  BY <1>1
<1> QED
  BY <1>2, <1>3 DEF Learned

\* Whatever the operator has confirmed stays a confirmed row.
THEOREM ConfirmedRows == Spec => ConfirmedKept
<1> DEFINE Kept == \A k \in confirmed : k \in confirmed' /\ owner'[k] # NoUser
<1>1. Inv /\ Inv' /\ [Next]_vars => [Kept]_vars
  <2> SUFFICES ASSUME Inv, Inv', [Next]_vars PROVE Kept
    OBVIOUS
  <2>1. confirmed \subseteq confirmed'
    BY DEF Next, vars, table, InsertRequestLog, ShouldAlert, GetOwner,
           QueryAccesses, NothingLearned, UpsertMappings, UpsertMappingsFails,
           WriteMappings, ConfirmedAfterUpsert, RefreshCache,
           LoadAllMappingsFails, ConfirmUserResourceMapping, LeaveWindow,
           Restart
  <2> QED
    BY <2>1 DEF Inv, ConfirmedInv
<1> QED
  BY <1>1, Invariance, PTL DEF Spec, ConfirmedKept

\* Scanner and detector mean the same key by a path with one id that the SQL
\* matches, if it matches no other segment of the path.
LEMMA SameKey ==
  ASSUME NEW u \in Url, Unambiguous(u)
  PROVE  u \in ResourceUrl /\ ScannerKey(u) = DetectorKey(u)
<1>1. PICK i \in DOMAIN u : Replaced(u) = {i} /\ Found(u) = {i}
  BY DEF Unambiguous
<1>2. i \in Int
  BY UrlAssumption
<1>3. Min({i}) = i /\ Max({i}) = i
  BY <1>2 DEF Min, Max
<1>4. ScannerKey(u) = <<Normalize(u), u[i]>>
  BY <1>1, <1>3 DEF ScannerKey
<1>5. DetectorKey(u) = <<Normalize(u), u[i]>>
  BY <1>1, <1>3 DEF DetectorKey
<1>6. u \in ResourceUrl
  BY <1>1 DEF ResourceUrl
<1> QED
  BY <1>4, <1>5, <1>6

\* Paths of this kind are not rare: it is enough that one segment is a number
\* and that no other looks like an id or a placeholder.
THEOREM NumbersAreUnambiguous ==
  ASSUME NEW u \in Url, NEW i \in DOMAIN u, u[i] \in Numeric,
         \A j \in DOMAIN u \ {i} :
           u[j] \notin Uuid \cup Hex \cup Matched \cup Placeholder
  PROVE  Unambiguous(u)
<1>1. \A j \in DOMAIN u : Normalize(u)[j] = normalizeSegment(u[j])
  BY DEF Normalize
<1>2. normalizeSegment(u[i]) \in Placeholder
  BY DEF normalizeSegment, Placeholder
<1>3. \A j \in DOMAIN u \ {i} : normalizeSegment(u[j]) \notin Placeholder
  <2> TAKE j \in DOMAIN u \ {i}
  <2>1. u[j] \notin Uuid \cup Numeric \cup Hex
    BY SegmentAssumption
  <2>2. normalizeSegment(u[j]) = u[j]
    BY <2>1 DEF normalizeSegment
  <2> QED
    BY <2>2
<1>4. Replaced(u) = {i}
  BY <1>1, <1>2, <1>3 DEF Replaced, Normalize
<1>5. Found(u) = {i}
  BY SegmentAssumption DEF Found
<1> QED
  BY <1>4, <1>5 DEF Unambiguous

\* While the cache follows the table, nobody but its owner gets past the
\* detector with a path of one matched id, whatever the other paths are.
THEOREM SingleIds == Spec => SingleIdProtected
<1> DEFINE Unprotected == /\ ShouldAlert
                          /\ detectorPc' = "idle"
                          /\ ~stale /\ scanPc # "load"
                          /\ Unambiguous(request.path)
           Allowed == owner[ScannerKey(request.path)] \in {NoUser, request.user}
<1>1. Inv /\ [Next]_vars => [Unprotected => Allowed]_vars
  <2> SUFFICES ASSUME Inv, Unprotected PROVE Allowed
    OBVIOUS
  <2>1. cache = owner
    BY DEF Inv, CacheFollowsTable
  <2>2. CachedOwner \in {NoUser, request.user}
    BY DEF ShouldAlert, Alerts
  <2>3. request.path \in Url
    BY DEF Inv, TypeOK, Request
  <2>4. CachedOwner = cache[ScannerKey(request.path)]
    BY <2>3, SameKey DEF CachedOwner
  <2> QED
    BY <2>1, <2>2, <2>4
<1> QED
  BY <1>1, Invariance, PTL DEF Spec, SingleIdProtected

===============================================================================
