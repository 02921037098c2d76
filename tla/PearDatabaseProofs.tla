-------------------------- MODULE PearDatabaseProofs --------------------------
(***************************************************************************)
(* The closed form in which PearDatabase applies a batch of log entries,   *)
(* proved against the statements that applyWalEntryToState executes one    *)
(* after the other, for logs of any length and tables of any size.         *)
(***************************************************************************)
EXTENDS MCPearDatabase, FiniteSetTheorems, WellFoundedInduction, TLAPS

-----------------------------------------------------------------------------
(* Numbers and logs                                                        *)

\* A bounded set of numbers that is not empty has a greatest element.
LEMMA GreatestOfBounded ==
    ASSUME NEW m \in Nat, NEW S, S \subseteq 0 .. m, S # {}
    PROVE  Max(S) \in S /\ \A y \in S : Max(S) >= y
<1> DEFINE T == {m - s : s \in S}
           R == OpToRel(<, Nat)
<1>0. T \subseteq Nat
  OBVIOUS
<1>1. T \subseteq Nat /\ T # {}
  <2>1. PICK s \in S : TRUE
    OBVIOUS
  <2>2. m - s \in T
    BY <2>1
  <2> QED BY <1>0, <2>2
<1>2. PICK t \in T : \A u \in T : ~ (<<u, t>> \in R)
  BY <1>1, NatLessThanWellFounded, WFMin
<1>3. \A u \in T : ~ (u < t)
  BY <1>1, <1>2 DEF OpToRel
<1>4. PICK s \in S : t = m - s
  OBVIOUS
<1>5. \A y \in S : s >= y
  BY <1>3, <1>4
<1> QED BY <1>5 DEF Max

\* An element of a bounded set of numbers that none exceeds is its greatest.
LEMMA GreatestIs ==
    ASSUME NEW m \in Nat, NEW S, S \subseteq 0 .. m, NEW x \in S, \A y \in S : x >= y
    PROVE  Max(S) = x
<1>1. Max(S) \in S /\ \A y \in S : Max(S) >= y
  BY GreatestOfBounded
<1> DEFINE z == Max(S)
<1> HIDE DEF z
<1>2. z \in S /\ x \in S /\ z >= x /\ x >= z
  BY <1>1 DEF z
<1>3. z = x
  BY <1>2
<1> QED BY <1>3 DEF z

\* A log without gaps ends with its length.
LEMMA LastOfLog ==
    ASSUME NEW w, NEW k \in Nat, DOMAIN w = 1 .. k
    PROVE  LastSeqId(w) = k
<1>1. CASE k = 0
  BY <1>1 DEF LastSeqId
<1>2. CASE k # 0
  <2>1. k \in DOMAIN w /\ DOMAIN w \subseteq 0 .. k /\ \A s \in DOMAIN w : k >= s
    BY <1>2
  <2>2. Max(DOMAIN w) = k
    BY <2>1, GreatestIs
  <2> QED BY <2>1, <2>2 DEF LastSeqId
<1> QED BY <1>1, <1>2

\* A batch and one entry more.
Longer(b, n, e, u) ==
    /\ DOMAIN b \subseteq 1 .. n
    /\ DOMAIN u = DOMAIN b \cup {n + 1}
    /\ \A s \in DOMAIN b : u[s] = b[s]
    /\ u[n + 1] = e

-----------------------------------------------------------------------------
(* The file table                                                          *)

KeyOf(e) == <<e.path, e.version>>
LastWrite(b, k) == Max(FileWrites(b, k[1], k[2]))
FileKeys(b) == {KeyOf(b[s]) : s \in {r \in DOMAIN b : IsFileEntry(b[r])}}

\* What a batch leaves under each key.
LEMMA AppliedFiles ==
    ASSUME NEW f, NEW b
    PROVE  /\ DOMAIN ApplyToFiles(f, b) = DOMAIN f \cup FileKeys(b)
           /\ ApplyToFiles(f, b) = [k \in DOMAIN ApplyToFiles(f, b) |-> ApplyToFiles(f, b)[k]]
           /\ \A k \in FileKeys(b) : ApplyToFiles(f, b)[k] = RowOf(b[LastWrite(b, k)])
           /\ \A k \in DOMAIN f \ FileKeys(b) : ApplyToFiles(f, b)[k] = f[k]
<1> DEFINE W == WrittenRows(b)
<1>1. DOMAIN W = FileKeys(b) /\ \A k \in FileKeys(b) : W[k] = RowOf(b[LastWrite(b, k)])
  BY DEF WrittenRows, FileKeys, KeyOf, LastWrite
<1> HIDE DEF W
<1>2. ApplyToFiles(f, b) = [k \in DOMAIN W \cup DOMAIN f |-> IF k \in DOMAIN W THEN W[k] ELSE f[k]]
  BY DEF ApplyToFiles, InsertOrReplace, InsertOrIgnore, W
<1> QED BY <1>1, <1>2

\* The table `new` is `g` with the row of one entry.
RowWritten(g, e, new) ==
    /\ new = [k \in DOMAIN new |-> new[k]]
    /\ IsFileEntry(e) => /\ DOMAIN new = DOMAIN g \cup {KeyOf(e)}
                         /\ new[KeyOf(e)] = RowOf(e)
                         /\ \A k \in DOMAIN g \ {KeyOf(e)} : new[k] = g[k]
    /\ ~IsFileEntry(e) => DOMAIN new = DOMAIN g /\ \A k \in DOMAIN g : new[k] = g[k]

\* The last entry of a batch writes its row, the others what they wrote before.
LEMMA FilesFollow ==
    ASSUME NEW n \in Nat, NEW b, NEW e, NEW u, Longer(b, n, e, u), NEW f
    PROVE  RowWritten(ApplyToFiles(f, b), e, ApplyToFiles(f, u))
<1> DEFINE g == ApplyToFiles(f, b)
           new == ApplyToFiles(f, u)
           W(w, k) == FileWrites(w, k[1], k[2])
           K == KeyOf(e)
<1>1. /\ DOMAIN g = DOMAIN f \cup FileKeys(b)
      /\ g = [k \in DOMAIN g |-> g[k]]
      /\ \A k \in FileKeys(b) : g[k] = RowOf(b[LastWrite(b, k)])
      /\ \A k \in DOMAIN f \ FileKeys(b) : g[k] = f[k]
  BY AppliedFiles
<1>2. /\ DOMAIN new = DOMAIN f \cup FileKeys(u)
      /\ new = [k \in DOMAIN new |-> new[k]]
      /\ \A k \in FileKeys(u) : new[k] = RowOf(u[LastWrite(u, k)])
      /\ \A k \in DOMAIN f \ FileKeys(u) : new[k] = f[k]
  BY AppliedFiles
<1> HIDE DEF g, new
<1>3. FileKeys(u) = FileKeys(b) \cup (IF IsFileEntry(e) THEN {K} ELSE {})
  <2>1. \A k : k \in FileKeys(b) <=> \E s \in DOMAIN b : IsFileEntry(b[s]) /\ k = KeyOf(b[s])
    BY DEF FileKeys
  <2>2. \A k : k \in FileKeys(u) <=> \E s \in DOMAIN u : IsFileEntry(u[s]) /\ k = KeyOf(u[s])
    BY DEF FileKeys
  <2> QED BY <2>1, <2>2 DEF Longer
<1>4. \A w, k, s : s \in W(w, k) <=> /\ s \in DOMAIN w /\ IsFileEntry(w[s])
                                     /\ w[s].path = k[1] /\ w[s].version = k[2]
  BY DEF FileWrites
<1>5. \A k \in FileKeys(b) : \E s \in DOMAIN b : /\ IsFileEntry(b[s]) /\ k = <<k[1], k[2]>>
                                                 /\ b[s].path = k[1] /\ b[s].version = k[2]
  BY DEF FileKeys, KeyOf
<1>6. K = <<e.path, e.version>> /\ K[1] = e.path /\ K[2] = e.version
  BY DEF KeyOf
<1> HIDE DEF W, K
<1>x. \A w, k : LastWrite(w, k) = Max(W(w, k))
  BY DEF LastWrite, W
<1>7. ASSUME NEW k \in FileKeys(b), ~(IsFileEntry(e) /\ k = K)
      PROVE  new[k] = g[k]
  <2>1. W(u, k) = W(b, k)
    <3>1. n + 1 \notin W(u, k)
      BY <1>4, <1>5, <1>6, <1>7 DEF Longer
    <3>2. \A s : s \in W(u, k) <=> s \in W(b, k)
      BY <1>4, <3>1 DEF Longer
    <3> QED BY <3>2
  <2>2. Max(W(b, k)) \in DOMAIN b
    <3>1. W(b, k) # {}
      BY <1>4, <1>5
    <3>2. W(b, k) \subseteq DOMAIN b
      BY <1>4
    <3>3. W(b, k) \subseteq 0 .. n
      BY <3>2 DEF Longer
    <3> QED BY <3>1, <3>2, <3>3, GreatestOfBounded
  <2>3. k \in FileKeys(u)
    BY <1>3
  <2> QED BY <1>1, <1>2, <1>x, <2>1, <2>2, <2>3 DEF Longer
<1>8. ASSUME IsFileEntry(e)
      PROVE  new[K] = RowOf(e)
  <2>1. n + 1 \in W(u, K)
    BY <1>4, <1>6, <1>8 DEF Longer
  <2>2. W(u, K) \subseteq 0 .. (n + 1)
    BY <1>4 DEF Longer
  <2>3. \A y \in W(u, K) : n + 1 >= y
    BY <2>2
  <2>4. Max(W(u, K)) = n + 1
    BY <2>1, <2>2, <2>3, GreatestIs
  <2>5. K \in FileKeys(u)
    BY <1>3, <1>8
  <2> QED BY <1>2, <1>x, <2>4, <2>5 DEF Longer
<1>9. ASSUME NEW k \in DOMAIN g, ~(IsFileEntry(e) /\ k = K)
      PROVE  new[k] = g[k]
  BY <1>1, <1>2, <1>3, <1>7, <1>9
<1>10. DOMAIN new = DOMAIN g \cup (IF IsFileEntry(e) THEN {K} ELSE {})
  BY <1>1, <1>2, <1>3
<1>11. RowWritten(g, e, new)
  BY <1>2, <1>8, <1>9, <1>10 DEF RowWritten, K
<1> QED BY <1>11 DEF g, new

\* The end of a log that a table has followed changes nothing there.
LEMMA FilesAgain ==
    ASSUME NEW n \in Nat, NEW w, DOMAIN w = 1 .. n, NEW k \in Nat, NEW f
    PROVE  LET g == ApplyToFiles(f, w)
           IN  ApplyToFiles(g, EntriesSince(w, k)) = g
<1> DEFINE g == ApplyToFiles(f, w)
           b == EntriesSince(w, k)
           h == ApplyToFiles(g, b)
<1>1. DOMAIN b = {s \in DOMAIN w : s > k} /\ \A s \in DOMAIN b : b[s] = w[s]
  BY DEF EntriesSince, Restrict
<1>2. /\ DOMAIN g = DOMAIN f \cup FileKeys(w)
      /\ g = [x \in DOMAIN g |-> g[x]]
      /\ \A x \in FileKeys(w) : g[x] = RowOf(w[LastWrite(w, x)])
      /\ \A x \in DOMAIN f \ FileKeys(w) : g[x] = f[x]
  BY AppliedFiles
<1>3. /\ DOMAIN h = DOMAIN g \cup FileKeys(b)
      /\ h = [x \in DOMAIN h |-> h[x]]
      /\ \A x \in FileKeys(b) : h[x] = RowOf(b[LastWrite(b, x)])
      /\ \A x \in DOMAIN g \ FileKeys(b) : h[x] = g[x]
  BY AppliedFiles
<1> HIDE DEF g, h, b
<1>4. FileKeys(b) \subseteq FileKeys(w)
  <2>1. \A x \in FileKeys(b) : \E s \in DOMAIN b : IsFileEntry(b[s]) /\ x = KeyOf(b[s])
    BY DEF FileKeys
  <2>2. \A s \in DOMAIN w : IsFileEntry(w[s]) => KeyOf(w[s]) \in FileKeys(w)
    BY DEF FileKeys
  <2> QED BY <1>1, <2>1, <2>2
<1>5. ASSUME NEW x \in FileKeys(b)
      PROVE  LastWrite(b, x) = LastWrite(w, x) /\ LastWrite(b, x) \in DOMAIN b
  <2> DEFINE S == FileWrites(b, x[1], x[2])
             T == FileWrites(w, x[1], x[2])
  <2>1. S = {s \in T : s > k} /\ S \subseteq DOMAIN b /\ T \subseteq DOMAIN w
    BY <1>1 DEF FileWrites
  <2>2. S # {}
    BY DEF FileWrites, FileKeys, KeyOf
  <2>3. S \subseteq 0 .. n /\ T \subseteq 0 .. n
    BY <1>1, <2>1
  <2> HIDE DEF S, T
  <2>4. Max(S) \in S /\ \A y \in S : Max(S) >= y
    BY <2>2, <2>3, GreatestOfBounded
  <2>5. PICK m \in S : m = Max(S) /\ \A y \in S : m >= y
    BY <2>4
  <2>6. m \in T /\ \A y \in T : m >= y
    <3>1. m \in T /\ m > k /\ m \in Nat
      BY <2>1, <2>3, <2>5
    <3>2. \A y \in T : y \in Nat /\ (y \in S \/ y <= k)
      BY <2>1, <2>3
    <3> QED BY <2>5, <3>1, <3>2
  <2>7. Max(T) = m
    BY <2>3, <2>6, GreatestIs
  <2> QED BY <2>1, <2>5, <2>7 DEF LastWrite, S, T
<1>6. \A x \in FileKeys(b) : h[x] = g[x]
  BY <1>1, <1>2, <1>3, <1>4, <1>5
<1>7. DOMAIN h = DOMAIN g
  BY <1>2, <1>3, <1>4
<1>8. \A x \in DOMAIN g : h[x] = g[x]
  BY <1>3, <1>6
<1>9. h = g
  BY <1>2, <1>3, <1>7, <1>8
<1> QED BY <1>9 DEF h, g, b

-----------------------------------------------------------------------------
(* The owners and the devices                                              *)

Pairs(o) == \A x \in o : x = <<x[1], x[2]>>

\* Who owns an object after a batch.
LEMMA AppliedOwner ==
    ASSUME NEW o, NEW b, NEW h, NEW d
    PROVE  <<h, d>> \in ApplyToOwners(o, b) <=>
              /\ <<h, d>> \in o \/ \E s \in DOMAIN b : Adds(b[s], h, d)
              /\ OwnerTouches(b, h, d) # {} => Adds(b[Max(OwnerTouches(b, h, d))], h, d)
<1> DEFINE x == <<h, d>>
<1>1. x[1] = h /\ x[2] = d
  OBVIOUS
<1>2. x \in AddedOwners(b) <=> \E s \in DOMAIN b : Adds(b[s], h, d)
  BY DEF AddedOwners, Adds
<1>3. x \in ApplyToOwners(o, b) <=>
         /\ x \in o \cup AddedOwners(b)
         /\ OwnerTouches(b, x[1], x[2]) # {} => Adds(b[Max(OwnerTouches(b, x[1], x[2]))], x[1], x[2])
  BY DEF ApplyToOwners
<1> QED BY <1>1, <1>2, <1>3

\* A batch leaves a set of owners a set of pairs.
LEMMA AppliedPairs ==
    ASSUME NEW o, Pairs(o), NEW b
    PROVE  Pairs(ApplyToOwners(o, b))
BY DEF Pairs, ApplyToOwners, AddedOwners

\* The last entry decides about the owner it names and nobody else.
LEMMA OwnersFollow ==
    ASSUME NEW n \in Nat, NEW b, NEW e, NEW u, Longer(b, n, e, u), NEW o, NEW h, NEW d
    PROVE  <<h, d>> \in ApplyToOwners(o, u) <=>
              Adds(e, h, d) \/ (<<h, d>> \in ApplyToOwners(o, b) /\ ~Removes(e, h, d))
<1> DEFINE S == OwnerTouches(b, h, d)
           T == OwnerTouches(u, h, d)
           In == <<h, d>> \in o
           AddedBy(w) == \E s \in DOMAIN w : Adds(w[s], h, d)
<1>1. <<h, d>> \in ApplyToOwners(o, b) <=> (In \/ AddedBy(b)) /\ (S # {} => Adds(b[Max(S)], h, d))
  BY AppliedOwner
<1>2. <<h, d>> \in ApplyToOwners(o, u) <=> (In \/ AddedBy(u)) /\ (T # {} => Adds(u[Max(T)], h, d))
  BY AppliedOwner
<1>3. ~(Adds(e, h, d) /\ Removes(e, h, d))
  BY DEF Adds, Removes
<1>4. AddedBy(u) <=> AddedBy(b) \/ Adds(e, h, d)
  BY DEF Longer
<1>5. T \subseteq 0 .. (n + 1) /\ S \subseteq 0 .. n /\ S \subseteq DOMAIN b
  BY DEF OwnerTouches, Longer
<1>6. CASE Adds(e, h, d) \/ Removes(e, h, d)
  <2>1. n + 1 \in T
    BY <1>6 DEF OwnerTouches, Longer
  <2>2. \A y \in T : n + 1 >= y
    BY <1>5
  <2>0. T \subseteq 0 .. (n + 1) /\ n + 1 \in Nat
    BY <1>5
  <2> HIDE DEF T
  <2>3. Max(T) = n + 1
    BY <2>0, <2>1, <2>2, GreatestIs
  <2>4. u[n + 1] = e
    BY DEF Longer
  <2> HIDE DEF In, AddedBy
  <2> QED BY <1>2, <1>3, <1>4, <1>6, <2>1, <2>3, <2>4
<1>7. CASE ~(Adds(e, h, d) \/ Removes(e, h, d))
  <2>1. T = S
    <3>1. \A s : s \in T <=> s \in S
      BY <1>7 DEF OwnerTouches, Longer
    <3> QED BY <3>1
  <2>2. S # {} => Max(S) \in DOMAIN b
    <3> HIDE DEF S
    <3> QED BY <1>5, GreatestOfBounded
  <2>3. S # {} => u[Max(S)] = b[Max(S)]
    BY <2>2 DEF Longer
  <2> HIDE DEF S, T, In, AddedBy
  <2> QED BY <1>1, <1>2, <1>4, <1>7, <2>1, <2>3
<1> QED BY <1>6, <1>7

\* Applying the end of a log a second time changes no owner.
LEMMA OwnersAgain ==
    ASSUME NEW n \in Nat, NEW w, DOMAIN w = 1 .. n, NEW k \in Nat, NEW o, Pairs(o)
    PROVE  LET g == ApplyToOwners(o, w)
           IN  ApplyToOwners(g, EntriesSince(w, k)) = g
<1> DEFINE g == ApplyToOwners(o, w)
           b == EntriesSince(w, k)
           r == ApplyToOwners(g, b)
<1>1. DOMAIN b = {s \in DOMAIN w : s > k} /\ \A s \in DOMAIN b : b[s] = w[s]
  BY DEF EntriesSince, Restrict
<1> HIDE DEF b
<1>2. Pairs(g) /\ Pairs(r)
  BY AppliedPairs
<1>3. ASSUME NEW h, NEW d
      PROVE  <<h, d>> \in r <=> <<h, d>> \in g
  <2> DEFINE S == OwnerTouches(b, h, d)
             T == OwnerTouches(w, h, d)
  <2>1. <<h, d>> \in g <=> /\ <<h, d>> \in o \/ \E s \in DOMAIN w : Adds(w[s], h, d)
                           /\ T # {} => Adds(w[Max(T)], h, d)
    BY AppliedOwner
  <2>2. <<h, d>> \in r <=> /\ <<h, d>> \in g \/ \E s \in DOMAIN b : Adds(b[s], h, d)
                           /\ S # {} => Adds(b[Max(S)], h, d)
    BY AppliedOwner
  <2>3. S = {s \in T : s > k} /\ S \subseteq DOMAIN b /\ T \subseteq DOMAIN w
    BY <1>1 DEF OwnerTouches
  <2>4. S \subseteq 0 .. n /\ T \subseteq 0 .. n
    BY <2>3
  <2>5. \A s \in DOMAIN b : Adds(b[s], h, d) => s \in S
    BY DEF OwnerTouches
  <2> HIDE DEF S, T, g, r
  <2>6. CASE S = {}
    BY <2>2, <2>5, <2>6
  <2>7. CASE S # {}
    <3>1. PICK m \in S : m = Max(S) /\ \A y \in S : m >= y
      BY <2>4, <2>7, GreatestOfBounded
    <3>2. m \in T /\ \A y \in T : m >= y
      <4>1. m \in T /\ m > k /\ m \in Nat
        BY <2>3, <2>4, <3>1
      <4>2. \A y \in T : y \in Nat /\ (y \in S \/ y <= k)
        BY <2>3, <2>4
      <4> QED BY <3>1, <4>1, <4>2
    <3>3. Max(T) = m
      BY <2>4, <3>2, GreatestIs
    <3>4. m \in DOMAIN b /\ b[m] = w[m] /\ m \in DOMAIN w
      BY <1>1, <2>3, <3>1
    <3> QED BY <2>1, <2>2, <3>1, <3>2, <3>3, <3>4
  <2> QED BY <2>6, <2>7
<1> HIDE DEF r, g
<1>4. r = g
  BY <1>2, <1>3 DEF Pairs
<1> QED BY <1>4 DEF r, g, b

LastAddress(b, d) == b[Max(DeviceWrites(b, d))].address
Devices(b) == {b[s].device : s \in {r \in DOMAIN b : b[r].op = "DeviceUpdate"}}

\* What a batch leaves under each device id.
LEMMA AppliedDevices ==
    ASSUME NEW t, NEW b
    PROVE  /\ DOMAIN ApplyToDevices(t, b) = DOMAIN t \cup Devices(b)
           /\ ApplyToDevices(t, b) = [d \in DOMAIN ApplyToDevices(t, b) |-> ApplyToDevices(t, b)[d]]
           /\ \A d \in Devices(b) : ApplyToDevices(t, b)[d] = LastAddress(b, d)
           /\ \A d \in DOMAIN t \ Devices(b) : ApplyToDevices(t, b)[d] = t[d]
BY DEF ApplyToDevices, InsertOrReplace, InsertOrIgnore, Devices, LastAddress

\* The table `new` is `g` with the address of one entry.
AddressSet(g, e, new) ==
    /\ new = [d \in DOMAIN new |-> new[d]]
    /\ e.op = "DeviceUpdate" => /\ DOMAIN new = DOMAIN g \cup {e.device}
                                /\ new[e.device] = e.address
                                /\ \A d \in DOMAIN g \ {e.device} : new[d] = g[d]
    /\ e.op # "DeviceUpdate" => DOMAIN new = DOMAIN g /\ \A d \in DOMAIN g : new[d] = g[d]

\* The last entry of a batch sets its device's address and no other.
LEMMA DevicesFollow ==
    ASSUME NEW n \in Nat, NEW b, NEW e, NEW u, Longer(b, n, e, u), NEW t
    PROVE  AddressSet(ApplyToDevices(t, b), e, ApplyToDevices(t, u))
<1> DEFINE g == ApplyToDevices(t, b)
           new == ApplyToDevices(t, u)
           W(w, d) == DeviceWrites(w, d)
           Sets == e.op = "DeviceUpdate"
<1>1. /\ DOMAIN g = DOMAIN t \cup Devices(b)
      /\ g = [d \in DOMAIN g |-> g[d]]
      /\ \A d \in Devices(b) : g[d] = LastAddress(b, d)
      /\ \A d \in DOMAIN t \ Devices(b) : g[d] = t[d]
  BY AppliedDevices
<1>2. /\ DOMAIN new = DOMAIN t \cup Devices(u)
      /\ new = [d \in DOMAIN new |-> new[d]]
      /\ \A d \in Devices(u) : new[d] = LastAddress(u, d)
      /\ \A d \in DOMAIN t \ Devices(u) : new[d] = t[d]
  BY AppliedDevices
<1> HIDE DEF g, new
<1>3. Devices(u) = Devices(b) \cup (IF Sets THEN {e.device} ELSE {})
  <2>1. \A d : d \in Devices(b) <=> \E s \in DOMAIN b : b[s].op = "DeviceUpdate" /\ d = b[s].device
    BY DEF Devices
  <2>2. \A d : d \in Devices(u) <=> \E s \in DOMAIN u : u[s].op = "DeviceUpdate" /\ d = u[s].device
    BY DEF Devices
  <2> QED BY <2>1, <2>2 DEF Longer
<1>4. \A w, d, s : s \in W(w, d) <=> s \in DOMAIN w /\ w[s].op = "DeviceUpdate" /\ w[s].device = d
  BY DEF DeviceWrites
<1>5. \A w, d : LastAddress(w, d) = w[Max(W(w, d))].address
  BY DEF LastAddress
<1>6. \A d \in Devices(b) : \E s \in DOMAIN b : b[s].op = "DeviceUpdate" /\ d = b[s].device
  BY DEF Devices
<1> HIDE DEF W
<1>7. ASSUME NEW d \in Devices(b), ~(Sets /\ d = e.device)
      PROVE  new[d] = g[d]
  <2>1. W(u, d) = W(b, d)
    <3>1. n + 1 \notin W(u, d)
      BY <1>4, <1>7 DEF Longer
    <3>2. \A s : s \in W(u, d) <=> s \in W(b, d)
      BY <1>4, <3>1 DEF Longer
    <3> QED BY <3>2
  <2>2. Max(W(b, d)) \in DOMAIN b
    <3>1. W(b, d) # {}
      BY <1>4, <1>6
    <3>2. W(b, d) \subseteq DOMAIN b
      BY <1>4
    <3>3. W(b, d) \subseteq 0 .. n
      BY <3>2 DEF Longer
    <3> QED BY <3>1, <3>2, <3>3, GreatestOfBounded
  <2>3. d \in Devices(u)
    BY <1>3
  <2> QED BY <1>1, <1>2, <1>5, <2>1, <2>2, <2>3 DEF Longer
<1>8. ASSUME Sets
      PROVE  new[e.device] = e.address
  <2>1. n + 1 \in W(u, e.device)
    BY <1>4, <1>8 DEF Longer
  <2>2. W(u, e.device) \subseteq 0 .. (n + 1)
    BY <1>4 DEF Longer
  <2>3. \A y \in W(u, e.device) : n + 1 >= y
    BY <2>2
  <2>4. Max(W(u, e.device)) = n + 1
    BY <2>1, <2>2, <2>3, GreatestIs
  <2>5. e.device \in Devices(u)
    BY <1>3, <1>8
  <2> QED BY <1>2, <1>5, <2>4, <2>5 DEF Longer
<1>9. ASSUME NEW d \in DOMAIN g, ~(Sets /\ d = e.device)
      PROVE  new[d] = g[d]
  BY <1>1, <1>2, <1>3, <1>7, <1>9
<1>10. DOMAIN new = DOMAIN g \cup (IF Sets THEN {e.device} ELSE {})
  BY <1>1, <1>2, <1>3
<1>11. AddressSet(g, e, new)
  BY <1>2, <1>8, <1>9, <1>10 DEF AddressSet
<1> QED BY <1>11 DEF g, new

\* Applying the end of a log a second time changes no device.
LEMMA DevicesAgain ==
    ASSUME NEW n \in Nat, NEW w, DOMAIN w = 1 .. n, NEW k \in Nat, NEW t
    PROVE  LET g == ApplyToDevices(t, w)
           IN  ApplyToDevices(g, EntriesSince(w, k)) = g
<1> DEFINE g == ApplyToDevices(t, w)
           b == EntriesSince(w, k)
           h == ApplyToDevices(g, b)
<1>1. DOMAIN b = {s \in DOMAIN w : s > k} /\ \A s \in DOMAIN b : b[s] = w[s]
  BY DEF EntriesSince, Restrict
<1>2. /\ DOMAIN g = DOMAIN t \cup Devices(w)
      /\ g = [d \in DOMAIN g |-> g[d]]
      /\ \A d \in Devices(w) : g[d] = LastAddress(w, d)
      /\ \A d \in DOMAIN t \ Devices(w) : g[d] = t[d]
  BY AppliedDevices
<1>3. /\ DOMAIN h = DOMAIN g \cup Devices(b)
      /\ h = [d \in DOMAIN h |-> h[d]]
      /\ \A d \in Devices(b) : h[d] = LastAddress(b, d)
      /\ \A d \in DOMAIN g \ Devices(b) : h[d] = g[d]
  BY AppliedDevices
<1> HIDE DEF g, h, b
<1>4. Devices(b) \subseteq Devices(w)
  BY <1>1 DEF Devices
<1>5. ASSUME NEW d \in Devices(b)
      PROVE  LastAddress(b, d) = LastAddress(w, d)
  <2> DEFINE S == DeviceWrites(b, d)
             T == DeviceWrites(w, d)
  <2>1. S = {s \in T : s > k} /\ S \subseteq DOMAIN b /\ T \subseteq DOMAIN w
    BY <1>1 DEF DeviceWrites
  <2>2. S # {}
    BY DEF DeviceWrites, Devices
  <2>3. S \subseteq 0 .. n /\ T \subseteq 0 .. n
    BY <1>1, <2>1
  <2> HIDE DEF S, T
  <2>4. PICK m \in S : m = Max(S) /\ \A y \in S : m >= y
    BY <2>2, <2>3, GreatestOfBounded
  <2>5. m \in T /\ \A y \in T : m >= y
    <3>1. m \in T /\ m > k /\ m \in Nat
      BY <2>1, <2>3, <2>4
    <3>2. \A y \in T : y \in Nat /\ (y \in S \/ y <= k)
      BY <2>1, <2>3
    <3> QED BY <2>4, <3>1, <3>2
  <2>6. Max(T) = m
    BY <2>3, <2>5, GreatestIs
  <2> QED BY <1>1, <2>1, <2>4, <2>6 DEF LastAddress, S, T
<1>6. \A d \in Devices(b) : h[d] = g[d]
  BY <1>2, <1>3, <1>4, <1>5
<1>7. DOMAIN h = DOMAIN g
  BY <1>2, <1>3, <1>4
<1>8. \A d \in DOMAIN g : h[d] = g[d]
  BY <1>3, <1>6
<1>9. h = g
  BY <1>2, <1>3, <1>7, <1>8
<1> QED BY <1>9 DEF h, g, b

-----------------------------------------------------------------------------
(* The database and its log                                                *)

\* The statements executed so far are the whole log applied as one batch.
Whole ==
    /\ files = ApplyToFiles(Nothing, log)
    /\ owners = ApplyToOwners({}, log)
    /\ devices = ApplyToDevices(Nothing, log)

\* A log without gaps, and rows of the tables' types.
Shape ==
    /\ LastSeqId(log) \in Nat /\ DOMAIN log = 1 .. LastSeqId(log)
    /\ from \in 0 .. LastSeqId(log)
    /\ DOMAIN files \subseteq Path \X (1 .. MaxVersion)
    /\ Pairs(owners) /\ Pairs(base.owners)

DatabaseInv == Shape /\ Whole /\ BatchIsItsEntries

\* An entry more on the log is an entry more in the batch that is under way.
LEMMA LoggedIsLonger ==
    ASSUME Shape, NEW e, Logged(e)
    PROVE  /\ LastSeqId(log') = LastSeqId(log) + 1
           /\ DOMAIN log' = 1 .. (LastSeqId(log) + 1)
           /\ Longer(log, LastSeqId(log), e, log')
           /\ Longer(EntriesSince(log, from), LastSeqId(log), e, EntriesSince(log', from))
<1> DEFINE n == LastSeqId(log)
<1>1. n \in Nat /\ DOMAIN log = 1 .. n /\ from \in 0 .. n
  BY DEF Shape
<1>2. log' = InsertOrIgnore(log, Single(n + 1, e))
  BY DEF Logged
<1>3. /\ DOMAIN log' = DOMAIN log \cup {n + 1}
      /\ \A s \in DOMAIN log : log'[s] = log[s]
      /\ log'[n + 1] = e
  <2> HIDE DEF n
  <2>1. n + 1 \notin DOMAIN log
    BY <1>1
  <2> QED BY <1>2, <2>1 DEF InsertOrIgnore, Single
<1> HIDE DEF n
<1>4. DOMAIN log' = 1 .. (n + 1)
  BY <1>1, <1>3
<1>5. LastSeqId(log') = n + 1
  <2>1. n + 1 \in Nat
    BY <1>1
  <2> QED BY <1>4, <2>1, LastOfLog
<1>6. Longer(log, n, e, log')
  BY <1>1, <1>3 DEF Longer
<1> DEFINE b == EntriesSince(log, from)
           u == EntriesSince(log', from)
<1>7. DOMAIN b = {s \in DOMAIN log : s > from} /\ \A s \in DOMAIN b : b[s] = log[s]
  BY DEF EntriesSince, Restrict
<1>8. DOMAIN u = {s \in DOMAIN log' : s > from} /\ \A s \in DOMAIN u : u[s] = log'[s]
  BY DEF EntriesSince, Restrict
<1> HIDE DEF b, u
<1>9. Longer(b, n, e, u)
  <2>1. n + 1 > from
    BY <1>1
  <2>2. DOMAIN u = DOMAIN b \cup {n + 1}
    BY <1>3, <1>7, <1>8, <2>1
  <2> QED BY <1>1, <1>3, <1>7, <1>8, <2>2 DEF Longer
<1> QED BY <1>4, <1>5, <1>6, <1>9 DEF n, b, u

\* No entry, no change.
LEMMA EmptyBatch ==
    ASSUME NEW b, DOMAIN b = {}
    PROVE  /\ \A f : (f = [k \in DOMAIN f |-> f[k]]) => ApplyToFiles(f, b) = f
           /\ \A o : ApplyToOwners(o, b) = o
           /\ \A t : (t = [k \in DOMAIN t |-> t[k]]) => ApplyToDevices(t, b) = t
<1>1. ASSUME NEW f, f = [k \in DOMAIN f |-> f[k]]
      PROVE  ApplyToFiles(f, b) = f
  <2> DEFINE g == ApplyToFiles(f, b)
  <2>1. FileKeys(b) = {}
    BY DEF FileKeys
  <2>2. /\ DOMAIN g = DOMAIN f \cup FileKeys(b)
        /\ g = [k \in DOMAIN g |-> g[k]]
        /\ \A k \in DOMAIN f \ FileKeys(b) : g[k] = f[k]
    BY AppliedFiles
  <2> HIDE DEF g
  <2>3. g = f
    BY <1>1, <2>1, <2>2
  <2> QED BY <2>3 DEF g
<1>2. ASSUME NEW o
      PROVE  ApplyToOwners(o, b) = o
  BY DEF ApplyToOwners, OwnerTouches, AddedOwners
<1>3. ASSUME NEW t, t = [k \in DOMAIN t |-> t[k]]
      PROVE  ApplyToDevices(t, b) = t
  <2> DEFINE g == ApplyToDevices(t, b)
  <2>1. Devices(b) = {}
    BY DEF Devices
  <2>2. /\ DOMAIN g = DOMAIN t \cup Devices(b)
        /\ g = [k \in DOMAIN g |-> g[k]]
        /\ \A k \in DOMAIN t \ Devices(b) : g[k] = t[k]
    BY AppliedDevices
  <2> HIDE DEF g
  <2>3. g = t
    BY <1>3, <2>1, <2>2
  <2> QED BY <2>3 DEF g
<1> QED BY <1>1, <1>2, <1>3

\* A table that followed a batch and then executed the statement of one entry
\* more has followed the longer batch.
Followed(f, o, t, b) ==
    files = ApplyToFiles(f, b) /\ owners = ApplyToOwners(o, b) /\ devices = ApplyToDevices(t, b)

Executed(e) ==
    /\ IF IsFileEntry(e)
       THEN files' = [k \in DOMAIN files \cup {KeyOf(e)} |-> IF k = KeyOf(e) THEN RowOf(e) ELSE files[k]]
       ELSE files' = files
    /\ IF e.op = "DeviceUpdate"
       THEN devices' = [d \in DOMAIN devices \cup {e.device} |->
                           IF d = e.device THEN e.address ELSE devices[d]]
       ELSE devices' = devices
    /\ Pairs(owners')
    /\ \A h, d : <<h, d>> \in owners' <=>
                    Adds(e, h, d) \/ (<<h, d>> \in owners /\ ~Removes(e, h, d))

\* If the tables are a batch applied, and a step executes one entry more, they are
\* the longer batch applied.
LEMMA FollowedOn ==
    ASSUME NEW n \in Nat, NEW b, NEW e, NEW u, Longer(b, n, e, u),
           NEW f, NEW o, Pairs(o), NEW t, Followed(f, o, t, b), Executed(e)
    PROVE  /\ files' = ApplyToFiles(f, u)
           /\ owners' = ApplyToOwners(o, u)
           /\ devices' = ApplyToDevices(t, u)
<1>1. files' = ApplyToFiles(f, u)
  <2> DEFINE new == ApplyToFiles(f, u)
             K == KeyOf(e)
             R == RowOf(e)
  <2>1. RowWritten(files, e, new)
    BY FilesFollow DEF Followed
  <2>2. files = [k \in DOMAIN files |-> files[k]]
    BY AppliedFiles DEF Followed
  <2>3. IF IsFileEntry(e)
        THEN files' = [k \in DOMAIN files \cup {K} |-> IF k = K THEN R ELSE files[k]]
        ELSE files' = files
    BY DEF Executed
  <2> HIDE DEF new
  <2>4. /\ new = [k \in DOMAIN new |-> new[k]]
        /\ IsFileEntry(e) => /\ DOMAIN new = DOMAIN files \cup {K}
                             /\ new[K] = R
                             /\ \A k \in DOMAIN files \ {K} : new[k] = files[k]
        /\ ~IsFileEntry(e) => DOMAIN new = DOMAIN files /\ \A k \in DOMAIN files : new[k] = files[k]
    BY <2>1 DEF RowWritten
  <2> HIDE DEF K, R
  <2>5. files' = new
    BY <2>2, <2>3, <2>4
  <2> QED BY <2>5 DEF new
<1>2. owners' = ApplyToOwners(o, u)
  <2>1. Pairs(owners') /\ Pairs(ApplyToOwners(o, u))
    BY AppliedPairs DEF Executed
  <2>2. \A h, d : <<h, d>> \in ApplyToOwners(o, u) <=>
                     Adds(e, h, d) \/ (<<h, d>> \in owners /\ ~Removes(e, h, d))
    BY OwnersFollow DEF Followed
  <2>3. \A h, d : <<h, d>> \in owners' <=> <<h, d>> \in ApplyToOwners(o, u)
    BY <2>2 DEF Executed
  <2> DEFINE r == ApplyToOwners(o, u)
  <2> HIDE DEF r
  <2>4. \A x : x \in owners' <=> x \in r
    BY <2>1, <2>3 DEF Pairs, r
  <2> QED BY <2>4 DEF r
<1>3. devices' = ApplyToDevices(t, u)
  <2> DEFINE new == ApplyToDevices(t, u)
  <2>1. AddressSet(devices, e, new)
    BY DevicesFollow DEF Followed
  <2>2. devices = [d \in DOMAIN devices |-> devices[d]]
    BY AppliedDevices DEF Followed
  <2>3. IF e.op = "DeviceUpdate"
        THEN devices' = [d \in DOMAIN devices \cup {e.device} |->
                            IF d = e.device THEN e.address ELSE devices[d]]
        ELSE devices' = devices
    BY DEF Executed
  <2> HIDE DEF new
  <2>4. devices' = new
    BY <2>1, <2>2, <2>3 DEF AddressSet
  <2> QED BY <2>4 DEF new
<1> QED BY <1>1, <1>2, <1>3

\* Each action executes the statement of the entry that it logs.
LEMMA FileUpdateExecuted ==
    ASSUME Shape, NEW p, NEW h, NEW v, NEW d, ApplyFileUpdate(p, h, v, d)
    PROVE  Executed(FileUpdate(p, h, v, d))
<1> DEFINE e == FileUpdate(p, h, v, d)
<1>1. /\ e.op = "FileUpdate" /\ IsFileEntry(e) /\ KeyOf(e) = <<p, v>>
      /\ RowOf(e) = [hash |-> h, owner |-> d]
      /\ \A g, c : (Adds(e, g, c) <=> g = h /\ c = d) /\ ~Removes(e, g, c)
  BY DEF FileUpdate, IsFileEntry, KeyOf, RowOf, Adds, Removes
<1>2. Pairs(owners') /\ \A g, c : <<g, c>> \in owners' <=> <<g, c>> \in owners \/ (g = h /\ c = d)
  BY DEF ApplyFileUpdate, Shape, Pairs
<1> HIDE DEF e
<1>3. Executed(e)
  BY <1>1, <1>2 DEF Executed, ApplyFileUpdate
<1> QED BY <1>3 DEF e

\* The statements of a kFileDelete do what its closed form says.
LEMMA FileDeleteExecuted ==
    ASSUME Shape, NEW p, NEW v, NEW d, ApplyFileDelete(p, v, d)
    PROVE  Executed(FileDelete(p, v, d))
<1> DEFINE e == FileDelete(p, v, d)
<1>1. /\ e.op = "FileDelete" /\ IsFileEntry(e) /\ KeyOf(e) = <<p, v>>
      /\ RowOf(e) = [hash |-> None, owner |-> d]
      /\ \A g, c : ~Adds(e, g, c) /\ ~Removes(e, g, c)
  BY DEF FileDelete, IsFileEntry, KeyOf, RowOf, Adds, Removes
<1>2. Pairs(owners')
  BY DEF ApplyFileDelete, Shape
<1> HIDE DEF e
<1>3. Executed(e)
  BY <1>1, <1>2 DEF Executed, ApplyFileDelete
<1> QED BY <1>3 DEF e

\* The statements of a kObjectOwnerUpdate do what its closed form says.
LEMMA OwnerUpdateExecuted ==
    ASSUME Shape, NEW h, NEW d, ApplyOwnerUpdate(h, d)
    PROVE  Executed(OwnerUpdate(h, d))
<1> DEFINE e == OwnerUpdate(h, d)
<1>1. /\ e.op = "OwnerUpdate" /\ ~IsFileEntry(e)
      /\ \A g, c : (Adds(e, g, c) <=> g = h /\ c = d) /\ ~Removes(e, g, c)
  BY DEF OwnerUpdate, IsFileEntry, Adds, Removes
<1>2. Pairs(owners') /\ \A g, c : <<g, c>> \in owners' <=> <<g, c>> \in owners \/ (g = h /\ c = d)
  BY DEF ApplyOwnerUpdate, Shape, Pairs
<1> HIDE DEF e
<1>3. Executed(e)
  BY <1>1, <1>2 DEF Executed, ApplyOwnerUpdate
<1> QED BY <1>3 DEF e

\* The statements of a kObjectOwnerDelete do what its closed form says.
LEMMA OwnerDeleteExecuted ==
    ASSUME Shape, NEW h, NEW d, ApplyOwnerDelete(h, d)
    PROVE  Executed(OwnerDelete(h, d))
<1> DEFINE e == OwnerDelete(h, d)
<1>1. /\ e.op = "OwnerDelete" /\ ~IsFileEntry(e)
      /\ \A g, c : (Removes(e, g, c) <=> g = h /\ c = d) /\ ~Adds(e, g, c)
  BY DEF OwnerDelete, IsFileEntry, Adds, Removes
<1>2. Pairs(owners') /\ \A g, c : <<g, c>> \in owners' <=> <<g, c>> \in owners /\ ~(g = h /\ c = d)
  BY DEF ApplyOwnerDelete, Shape, Pairs
<1> HIDE DEF e
<1>3. Executed(e)
  BY <1>1, <1>2 DEF Executed, ApplyOwnerDelete
<1> QED BY <1>3 DEF e

\* The statements of a kDeviceUpdate do what its closed form says.
LEMMA DeviceUpdateExecuted ==
    ASSUME Shape, NEW d, NEW a, ApplyDeviceUpdate(d, a)
    PROVE  Executed(DeviceUpdate(d, a))
<1> DEFINE e == DeviceUpdate(d, a)
<1>1. /\ e.op = "DeviceUpdate" /\ ~IsFileEntry(e) /\ e.device = d /\ e.address = a
      /\ \A g, c : ~Adds(e, g, c) /\ ~Removes(e, g, c)
  BY DEF DeviceUpdate, IsFileEntry, Adds, Removes
<1>2. Pairs(owners')
  BY DEF ApplyDeviceUpdate, Shape
<1> HIDE DEF e
<1>3. Executed(e)
  BY <1>1, <1>2 DEF Executed, ApplyDeviceUpdate
<1> QED BY <1>3 DEF e

\* An entry executed and logged keeps the tables at what the log says, whole
\* or since the batch began.
LEMMA ExecutedKeeps ==
    ASSUME DatabaseInv, NEW e, Logged(e), Executed(e)
    PROVE  /\ Whole' /\ BatchIsItsEntries'
           /\ LastSeqId(log') \in Nat /\ DOMAIN log' = 1 .. LastSeqId(log')
           /\ from' \in 0 .. LastSeqId(log')
           /\ Pairs(owners') /\ Pairs(base'.owners)
<1>0. Shape /\ Whole /\ BatchIsItsEntries
  BY DEF DatabaseInv
<1>1. /\ LastSeqId(log) \in Nat /\ from \in 0 .. LastSeqId(log)
      /\ LastSeqId(log') = LastSeqId(log) + 1
      /\ DOMAIN log' = 1 .. (LastSeqId(log) + 1)
      /\ Longer(log, LastSeqId(log), e, log')
      /\ Longer(EntriesSince(log, from), LastSeqId(log), e, EntriesSince(log', from))
  BY <1>0, LoggedIsLonger DEF Shape
<1>2. UNCHANGED <<from, base>>
  BY DEF Logged
<1>3. Whole'
  <2>1. Followed(Nothing, {}, Nothing, log) /\ Pairs({})
    BY <1>0 DEF Whole, Followed, Pairs
  <2>2. /\ files' = ApplyToFiles(Nothing, log')
        /\ owners' = ApplyToOwners({}, log')
        /\ devices' = ApplyToDevices(Nothing, log')
    BY <1>1, <2>1, FollowedOn
  <2> QED BY <2>2 DEF Whole, Nothing
<1>4. BatchIsItsEntries'
  <2>1. Followed(base.files, base.owners, base.devices, EntriesSince(log, from)) /\ Pairs(base.owners)
    BY <1>0 DEF BatchIsItsEntries, Followed, Shape
  <2>2. /\ files' = ApplyToFiles(base.files, EntriesSince(log', from))
        /\ owners' = ApplyToOwners(base.owners, EntriesSince(log', from))
        /\ devices' = ApplyToDevices(base.devices, EntriesSince(log', from))
    BY <1>1, <2>1, FollowedOn
  <2> QED BY <1>2, <2>2 DEF BatchIsItsEntries
<1>5. Pairs(owners') /\ Pairs(base'.owners)
  BY <1>0, <1>2 DEF Executed, Shape
<1> QED BY <1>1, <1>2, <1>3, <1>4, <1>5

\* An empty log has been executed.
LEMMA DatabaseInvInit == Init => DatabaseInv
<1> SUFFICES ASSUME Init PROVE DatabaseInv
  OBVIOUS
<1>1. DOMAIN log = {} /\ DOMAIN log = 1 .. 0 /\ from = 0
  BY DEF Init, Nothing
<1>2. LastSeqId(log) = 0
  BY <1>1 DEF LastSeqId
<1>3. DOMAIN files = {} /\ owners = {} /\ base.files = files /\ base.owners = {} /\ base.devices = devices
  BY DEF Init, Nothing, tables
<1>4. Shape
  BY <1>1, <1>2, <1>3 DEF Shape, Pairs
<1>5. files = Nothing /\ devices = Nothing /\ owners = {}
  BY DEF Init
<1>6. Nothing = [k \in DOMAIN Nothing |-> Nothing[k]]
  BY DEF Nothing
<1>7. ASSUME NEW b, DOMAIN b = {}
      PROVE  /\ ApplyToFiles(Nothing, b) = Nothing
             /\ ApplyToOwners({}, b) = {}
             /\ ApplyToDevices(Nothing, b) = Nothing
  <2> DEFINE N == Nothing
  <2> HIDE DEF N
  <2>1. N = [k \in DOMAIN N |-> N[k]]
    BY <1>6 DEF N
  <2>2. ApplyToFiles(N, b) = N /\ ApplyToOwners({}, b) = {} /\ ApplyToDevices(N, b) = N
    BY <1>7, <2>1, EmptyBatch
  <2> QED BY <2>2 DEF N
<1>8. Whole
  BY <1>1, <1>5, <1>7 DEF Whole
<1>9. DOMAIN EntriesSince(log, from) = {}
  BY <1>1 DEF EntriesSince, Restrict
<1>10. BatchIsItsEntries
  BY <1>3, <1>5, <1>7, <1>9 DEF BatchIsItsEntries
<1> QED BY <1>4, <1>8, <1>10 DEF DatabaseInv

\* Every entry that is executed, and every cut, keeps DatabaseInv.
LEMMA DatabaseInvNext == DatabaseInv /\ [Next]_vars => DatabaseInv'
<1> SUFFICES ASSUME DatabaseInv, [Next]_vars PROVE DatabaseInv'
  OBVIOUS
<1>0. Shape /\ Whole /\ BatchIsItsEntries
  BY DEF DatabaseInv
<1>1. ASSUME NEW p \in Path, NEW h \in Hash, NEW v \in 1 .. MaxVersion, NEW d \in Device,
             ApplyFileUpdate(p, h, v, d)
      PROVE  DatabaseInv'
  <2>1. Executed(FileUpdate(p, h, v, d)) /\ Logged(FileUpdate(p, h, v, d))
    BY <1>0, <1>1, FileUpdateExecuted DEF ApplyFileUpdate
  <2>2. DOMAIN files' \subseteq Path \X (1 .. MaxVersion)
    BY <1>0, <1>1 DEF Shape, ApplyFileUpdate
  <2> QED BY <2>1, <2>2, ExecutedKeeps DEF DatabaseInv, Shape
<1>2. ASSUME NEW p \in Path, NEW v \in 1 .. MaxVersion, NEW d \in Device, ApplyFileDelete(p, v, d)
      PROVE  DatabaseInv'
  <2>1. Executed(FileDelete(p, v, d)) /\ Logged(FileDelete(p, v, d))
    BY <1>0, <1>2, FileDeleteExecuted DEF ApplyFileDelete
  <2>2. DOMAIN files' \subseteq Path \X (1 .. MaxVersion)
    BY <1>0, <1>2 DEF Shape, ApplyFileDelete
  <2> QED BY <2>1, <2>2, ExecutedKeeps DEF DatabaseInv, Shape
<1>3. ASSUME NEW h \in Hash, NEW d \in Device, ApplyOwnerUpdate(h, d)
      PROVE  DatabaseInv'
  <2>1. Executed(OwnerUpdate(h, d)) /\ Logged(OwnerUpdate(h, d))
    BY <1>0, <1>3, OwnerUpdateExecuted DEF ApplyOwnerUpdate
  <2>2. DOMAIN files' \subseteq Path \X (1 .. MaxVersion)
    BY <1>0, <1>3 DEF Shape, ApplyOwnerUpdate
  <2> QED BY <2>1, <2>2, ExecutedKeeps DEF DatabaseInv, Shape
<1>4. ASSUME NEW h \in Hash, NEW d \in Device, ApplyOwnerDelete(h, d)
      PROVE  DatabaseInv'
  <2>1. Executed(OwnerDelete(h, d)) /\ Logged(OwnerDelete(h, d))
    BY <1>0, <1>4, OwnerDeleteExecuted DEF ApplyOwnerDelete
  <2>2. DOMAIN files' \subseteq Path \X (1 .. MaxVersion)
    BY <1>0, <1>4 DEF Shape, ApplyOwnerDelete
  <2> QED BY <2>1, <2>2, ExecutedKeeps DEF DatabaseInv, Shape
<1>5. ASSUME NEW d \in Device, NEW a \in Node, ApplyDeviceUpdate(d, a)
      PROVE  DatabaseInv'
  <2>1. Executed(DeviceUpdate(d, a)) /\ Logged(DeviceUpdate(d, a))
    BY <1>0, <1>5, DeviceUpdateExecuted DEF ApplyDeviceUpdate
  <2>2. DOMAIN files' \subseteq Path \X (1 .. MaxVersion)
    BY <1>0, <1>5 DEF Shape, ApplyDeviceUpdate
  <2> QED BY <2>1, <2>2, ExecutedKeeps DEF DatabaseInv, Shape
<1>6. CASE BeginBatch
  <2>1. UNCHANGED <<log, files, owners, devices>> /\ from' = LastSeqId(log) /\ base' = tables
    BY <1>6 DEF BeginBatch
  <2>2. base'.files = files /\ base'.owners = owners /\ base'.devices = devices
    BY <2>1 DEF tables
  <2>3. Shape'
    BY <1>0, <2>1, <2>2 DEF Shape
  <2>4. Whole'
    BY <1>0, <2>1 DEF Whole, Nothing
  <2>5. DOMAIN EntriesSince(log', from') = {}
    BY <1>0, <2>1 DEF Shape, EntriesSince, Restrict
  <2>6. files = [k \in DOMAIN files |-> files[k]] /\ devices = [d \in DOMAIN devices |-> devices[d]]
    BY <1>0, AppliedFiles, AppliedDevices DEF Whole
  <2>7. BatchIsItsEntries'
    BY <2>1, <2>2, <2>5, <2>6, EmptyBatch DEF BatchIsItsEntries
  <2> QED BY <2>3, <2>4, <2>7 DEF DatabaseInv
<1>7. CASE UNCHANGED vars
  BY <1>0, <1>7 DEF DatabaseInv, Shape, Whole, BatchIsItsEntries, vars, Nothing
<1> QED BY <1>1, <1>2, <1>3, <1>4, <1>5, <1>6, <1>7 DEF Next

\* However the log is cut into batches, the tables are what the statements of
\* its entries leave, and what the whole log applied at once would leave.
THEOREM DatabaseInvariance == Spec => []DatabaseInv
<1> QED BY DatabaseInvInit, DatabaseInvNext, PTL DEF Spec

\* PearSync may apply a batch at once: applyWalEntries leaves the same tables.
THEOREM BatchTheorem == Spec => []BatchIsItsEntries
<1>1. DatabaseInv => BatchIsItsEntries
  BY DEF DatabaseInv
<1> QED BY <1>1, DatabaseInvariance, PTL

\* A sync whose answer overlaps what another sync of the node applied applies
\* the end of the log again, which is harmless.
THEOREM ReapplyTheorem == Spec => []ReapplyIsHarmless
<1>1. DatabaseInv => ReapplyIsHarmless
  <2> SUFFICES ASSUME DatabaseInv, NEW k \in 0 .. LastSeqId(log)
               PROVE  /\ ApplyToFiles(files, EntriesSince(log, k)) = files
                      /\ ApplyToOwners(owners, EntriesSince(log, k)) = owners
                      /\ ApplyToDevices(devices, EntriesSince(log, k)) = devices
    BY DEF ReapplyIsHarmless
  <2>1. LastSeqId(log) \in Nat /\ DOMAIN log = 1 .. LastSeqId(log) /\ k \in Nat /\ Pairs({})
    BY DEF DatabaseInv, Shape, Pairs
  <2>2. /\ files = ApplyToFiles(Nothing, log)
        /\ owners = ApplyToOwners({}, log)
        /\ devices = ApplyToDevices(Nothing, log)
    BY DEF DatabaseInv, Whole
  <2>3. ApplyToFiles(files, EntriesSince(log, k)) = files
    BY <2>1, <2>2, FilesAgain
  <2>4. ApplyToOwners(owners, EntriesSince(log, k)) = owners
    BY <2>1, <2>2, OwnersAgain
  <2>5. ApplyToDevices(devices, EntriesSince(log, k)) = devices
    BY <2>1, <2>2, DevicesAgain
  <2> QED BY <2>3, <2>4, <2>5
<1> QED BY <1>1, DatabaseInvariance, PTL

-----------------------------------------------------------------------------
(* Versions                                                                *)

\* The versions of a path are those it has a row for.
LEMMA VersionsOf ==
    ASSUME NEW f, NEW p
    PROVE  \A v : v \in Versions(f, p) <=> <<p, v>> \in DOMAIN f
<1>1. \A v : <<p, v>>[2] = v
  OBVIOUS
<1> QED BY <1>1 DEF Versions

\* The newest version of a path, and the one after it.
LEMMA NewestVersion ==
    ASSUME NEW f, DOMAIN f \subseteq Path \X (1 .. MaxVersion), NEW p
    PROVE  /\ Versions(f, p) \subseteq 1 .. MaxVersion
           /\ Versions(f, p) # {} => /\ Max(Versions(f, p)) \in Versions(f, p)
                                     /\ \A v \in Versions(f, p) : Max(Versions(f, p)) >= v
           /\ NextVersion(f, p) \in 1 .. (MaxVersion + 1)
           /\ \A v \in Versions(f, p) : NextVersion(f, p) > v
<1>0. MaxVersion \in Nat
  BY BoundAssumption
<1> DEFINE S == Versions(f, p)
<1>1. S \subseteq 1 .. MaxVersion
  <2>1. ASSUME NEW v \in S PROVE v \in 1 .. MaxVersion
    <3>1. <<p, v>> \in Path \X (1 .. MaxVersion)
      BY VersionsOf
    <3> QED BY <3>1
  <2> QED BY <2>1
<1>2. S \subseteq 0 .. MaxVersion
  BY <1>0, <1>1
<1> HIDE DEF S
<1>3. S # {} => Max(S) \in S /\ \A v \in S : Max(S) >= v
  BY <1>0, <1>2, GreatestOfBounded
<1>4. NextVersion(f, p) = IF S = {} THEN 1 ELSE Max(S) + 1
  BY DEF NextVersion, S
<1>5. NextVersion(f, p) \in 1 .. (MaxVersion + 1) /\ \A v \in S : NextVersion(f, p) > v
  <2>1. CASE S = {}
    BY <1>0, <1>4, <2>1
  <2>2. CASE S # {}
    <3> DEFINE m == Max(S)
    <3> HIDE DEF m
    <3>1. m \in S /\ \A v \in S : m >= v
      BY <1>3, <2>2 DEF m
    <3>2. NextVersion(f, p) = m + 1
      BY <1>4, <2>2 DEF m
    <3> QED BY <1>0, <1>1, <3>1, <3>2
  <2> QED BY <2>1, <2>2
<1> QED BY <1>1, <1>3, <1>5 DEF S

\* The entry that addWalEntry stores for a proposed file entry.
LEMMA VersionedEntry ==
    ASSUME NEW p, NEW h, NEW d, NEW e \in {FileUpdate(p, h, 0, d), FileDelete(p, 0, d)}
    PROVE  /\ IsFileEntry(Versioned(files, e))
           /\ KeyOf(Versioned(files, e)) = <<p, NextVersion(files, p)>>
           /\ RowOf(Versioned(files, e)) = RowOf(e)
<1>1. CASE e = FileUpdate(p, h, 0, d)
  <2>1. Versioned(files, e) = FileUpdate(p, h, NextVersion(files, p), d)
    BY <1>1 DEF Versioned, IsFileEntry, FileUpdate
  <2> QED BY <1>1, <2>1 DEF IsFileEntry, KeyOf, RowOf, FileUpdate
<1>2. CASE e = FileDelete(p, 0, d)
  <2>1. Versioned(files, e) = FileDelete(p, NextVersion(files, p), d)
    BY <1>2 DEF Versioned, IsFileEntry, FileDelete
  <2> QED BY <1>2, <2>1 DEF IsFileEntry, KeyOf, RowOf, FileDelete
<1> QED BY <1>1, <1>2

\* A versioned entry adds a row, keeps the others and is what the next query
\* of its path finds, whatever gaps a cleanup has left in the versions.
THEOREM NewEntryTheorem == Spec => []NewEntryIsCurrent
<1>1. DatabaseInv => NewEntryIsCurrent
  <2> SUFFICES ASSUME DatabaseInv,
                      NEW p \in Path, NEW h \in Hash, NEW d \in Device,
                      NEW e \in {FileUpdate(p, h, 0, d), FileDelete(p, 0, d)}
               PROVE  LET f == ApplyToFiles(files, Single(1, Versioned(files, e)))
                      IN  /\ IsRestriction(files, f)
                          /\ DOMAIN f # DOMAIN files
                          /\ CurrentHash(f, p) = RowOf(e).hash
    BY DEF NewEntryIsCurrent
  <2> DEFINE x == Versioned(files, e)
             f == ApplyToFiles(files, Single(1, x))
             v == NextVersion(files, p)
             K == <<p, v>>
  <2>1. IsFileEntry(x) /\ KeyOf(x) = K /\ RowOf(x) = RowOf(e)
    BY VersionedEntry
  <2>2. /\ DOMAIN files \subseteq Path \X (1 .. MaxVersion)
        /\ files = [k \in DOMAIN files |-> files[k]]
        /\ MaxVersion \in Nat
    BY AppliedFiles, BoundAssumption DEF DatabaseInv, Shape, Whole
  <2>3. /\ Versions(files, p) \subseteq 1 .. MaxVersion
        /\ v \in 1 .. (MaxVersion + 1)
        /\ \A w \in Versions(files, p) : v > w
    BY <2>2, NewestVersion
  <2> HIDE DEF x, v
  <2>4. Longer(Nothing, 0, x, Single(1, x)) /\ DOMAIN Nothing = {}
    BY DEF Longer, Nothing, Single
  <2>5. ApplyToFiles(files, Nothing) = files
    BY <2>2, <2>4, EmptyBatch
  <2>6. /\ DOMAIN f = DOMAIN files \cup {K}
        /\ f[K] = RowOf(e)
        /\ \A k \in DOMAIN files \ {K} : f[k] = files[k]
    <3> DEFINE u == Single(1, x)
    <3> HIDE DEF u
    <3>1. f = ApplyToFiles(files, u)
      BY DEF u
    <3>2. RowWritten(ApplyToFiles(files, Nothing), x, ApplyToFiles(files, u))
      <4> DEFINE n == 0
      <4>1. n \in Nat /\ Longer(Nothing, n, x, u)
        BY <2>4 DEF u
      <4> HIDE DEF n
      <4> QED BY <4>1, FilesFollow
    <3>3. RowWritten(files, x, f)
      BY <2>5, <3>1, <3>2
    <3> HIDE DEF f
    <3> QED BY <2>1, <3>3 DEF RowWritten
  <2> HIDE DEF f
  <2>7. K \notin DOMAIN files
    <3>1. v \notin Versions(files, p)
      BY <2>2, <2>3
    <3> QED BY <3>1, VersionsOf
  <2>8. IsRestriction(files, f) /\ DOMAIN f # DOMAIN files
    BY <2>6, <2>7 DEF IsRestriction
  <2>9. CurrentHash(f, p) = RowOf(e).hash
    <3> DEFINE S == Versions(f, p)
    <3>1. \A w : w \in S <=> w \in Versions(files, p) \/ w = v
      <4>1. \A w : (w \in S <=> <<p, w>> \in DOMAIN f)
                   /\ (w \in Versions(files, p) <=> <<p, w>> \in DOMAIN files)
        BY VersionsOf
      <4>2. \A w : <<p, w>> = K <=> w = v
        OBVIOUS
      <4> QED BY <2>6, <4>1, <4>2
    <3> HIDE DEF S
    <3>2. v \in S /\ S \subseteq 0 .. (MaxVersion + 1) /\ \A w \in S : v >= w
      BY <2>2, <2>3, <3>1
    <3>3. MaxVersion + 1 \in Nat
      BY <2>2
    <3>4. Max(S) = v
      BY <3>2, <3>3, GreatestIs
    <3> QED BY <2>6, <3>2, <3>4 DEF CurrentHash, S
  <2> QED BY <2>8, <2>9 DEF f, x
<1> QED BY <1>1, DatabaseInvariance, PTL

\* A cleanup that keeps at least one version keeps the newest of every path.
LEMMA CleanupKeepsNewest ==
    ASSUME NEW f, DOMAIN f \subseteq Path \X (1 .. MaxVersion),
           NEW paths, NEW keep \in Nat, keep >= 1, NEW p
    PROVE  LET g == CleanOldVersions(f, paths, keep)
           IN  /\ Versions(g, p) \subseteq Versions(f, p)
               /\ \A k \in DOMAIN g : g[k] = f[k]
               /\ Versions(f, p) # {} => Max(Versions(f, p)) \in Versions(g, p)
<1> DEFINE g == CleanOldVersions(f, paths, keep)
           Newer(k) == {v \in Versions(f, k[1]) : v > k[2]}
<1>1. /\ DOMAIN g = {k \in DOMAIN f : k[1] \in paths => Cardinality(Newer(k)) < keep}
      /\ \A k \in DOMAIN g : g[k] = f[k]
  BY DEF CleanOldVersions, Restrict
<1>2. Versions(g, p) \subseteq Versions(f, p)
  <2>1. DOMAIN g \subseteq DOMAIN f
    BY <1>1
  <2> HIDE DEF g
  <2> QED BY <2>1, VersionsOf
<1>3. ASSUME Versions(f, p) # {}
      PROVE  Max(Versions(f, p)) \in Versions(g, p)
  <2> DEFINE S == Versions(f, p)
             m == Max(S)
             K == <<p, m>>
  <2>1. S \subseteq 1 .. MaxVersion /\ m \in S /\ \A v \in S : m >= v
    BY <1>3, NewestVersion
  <2>2. K \in DOMAIN f /\ K[1] = p /\ K[2] = m
    BY <2>1, VersionsOf
  <2>3. Newer(K) = {}
    <3> HIDE DEF m, S
    <3>1. S \subseteq Int /\ m \in S
      BY <2>1
    <3>2. ASSUME NEW v \in S PROVE ~(v > m)
      <4>1. m >= v /\ v \in Int /\ m \in Int
        BY <2>1, <3>1
      <4> QED BY <4>1
    <3> QED BY <2>2, <3>2 DEF S
  <2>4. Cardinality(Newer(K)) = 0
    BY <2>3, FS_EmptySet
  <2>5. K \in DOMAIN g
    <3> HIDE DEF g, K, Newer
    <3> QED BY <1>1, <2>2, <2>4
  <2> HIDE DEF g
  <2> QED BY <2>5, VersionsOf
<1> QED BY <1>1, <1>2, <1>3

\* What to pull and which version comes next do not change with a cleanup.
THEOREM CleanupTheorem == Spec => []CleanupIsInvisible
<1>1. DatabaseInv => CleanupIsInvisible
  <2> SUFFICES ASSUME DatabaseInv,
                      NEW paths \in SUBSET Path, NEW keep \in 1 .. MaxVersion, NEW p \in Path
               PROVE  LET f == CleanOldVersions(files, paths, keep)
                      IN  /\ CurrentHash(f, p) = CurrentHash(files, p)
                          /\ NextVersion(f, p) = NextVersion(files, p)
    BY DEF CleanupIsInvisible
  <2> DEFINE f == CleanOldVersions(files, paths, keep)
             S == Versions(files, p)
             T == Versions(f, p)
  <2>1. DOMAIN files \subseteq Path \X (1 .. MaxVersion) /\ MaxVersion \in Nat
    BY BoundAssumption DEF DatabaseInv, Shape
  <2>2. /\ T \subseteq S
        /\ \A k \in DOMAIN f : f[k] = files[k]
        /\ S # {} => Max(S) \in T
    <3>1. keep \in Nat /\ keep >= 1
      BY <2>1
    <3> QED BY <2>1, <3>1, CleanupKeepsNewest
  <2>3. S \subseteq 1 .. MaxVersion /\ (S # {} => \A v \in S : Max(S) >= v)
    BY <2>1, NewestVersion
  <2>4. \A v : v \in T <=> <<p, v>> \in DOMAIN f
    BY VersionsOf
  <2> HIDE DEF f, S, T
  <2>5. CASE S = {}
    <3>1. Versions(files, p) = {} /\ Versions(f, p) = {}
      BY <2>2, <2>5 DEF S, T
    <3> QED BY <3>1 DEF CurrentHash, NextVersion, f
  <2>6. CASE S # {}
    <3>1. PICK m \in T : m = Max(S)
      BY <2>2, <2>6
    <3>2. T \subseteq 0 .. MaxVersion /\ \A v \in T : m >= v
      BY <2>1, <2>2, <2>3, <3>1
    <3>3. Max(T) = m
      BY <2>1, <3>2, GreatestIs
    <3>4. f[<<p, m>>] = files[<<p, m>>] /\ T # {}
      BY <2>2, <2>4, <3>1
    <3>5. /\ Versions(files, p) # {} /\ Max(Versions(files, p)) = m
          /\ Versions(f, p) # {} /\ Max(Versions(f, p)) = m
      BY <2>6, <3>1, <3>3, <3>4 DEF S, T
    <3>6. CurrentHash(f, p) = CurrentHash(files, p) /\ NextVersion(f, p) = NextVersion(files, p)
      BY <3>4, <3>5 DEF CurrentHash, NextVersion
    <3> QED BY <3>6 DEF f
  <2> QED BY <2>5, <2>6 DEF f
<1> QED BY <1>1, DatabaseInvariance, PTL

-----------------------------------------------------------------------------
(* Cleanup in the order of the versions                                    *)

\* The rank of v in S: how many elements are greater.
Rank(S, v) == Cardinality({w \in S : w > v})

\* Ranks of numbers fall as the numbers grow.
LEMMA RanksFall ==
    ASSUME NEW S, IsFiniteSet(S), S \subseteq Nat, NEW v \in S
    PROVE  /\ Rank(S, v) \in 0 .. Cardinality(S) - 1
           /\ \A w \in S : v < w => Rank(S, w) < Rank(S, v)
<1> DEFINE Above(x) == {w \in S : w > x}
<1>1. \A x : IsFiniteSet(Above(x)) /\ Cardinality(Above(x)) \in Nat
  BY FS_Subset, FS_CardinalityType
<1>2. Rank(S, v) <= Cardinality(S) - 1
  <2>1. Above(v) \subseteq S \ {v}
    OBVIOUS
  <2>2. IsFiniteSet(S \ {v}) /\ Cardinality(S \ {v}) = Cardinality(S) - 1
    BY FS_RemoveElement
  <2> HIDE DEF Above
  <2>3. Cardinality(Above(v)) <= Cardinality(S \ {v})
    BY <2>1, <2>2, FS_Subset
  <2> QED BY <2>2, <2>3 DEF Rank, Above
<1>3. ASSUME NEW w \in S, v < w
      PROVE  Rank(S, w) < Rank(S, v)
  <2>1. v \in Nat /\ w \in Nat
    OBVIOUS
  <2>2. Above(w) \subseteq Above(v) /\ w \in Above(v) /\ w \notin Above(w)
    <3>1. \A x \in S : x > w => x > v
      <4>1. ASSUME NEW x \in S, x > w PROVE x > v
        <5>1. x \in Nat
          OBVIOUS
        <5> QED BY <1>3, <2>1, <4>1, <5>1
      <4> QED BY <4>1
    <3>2. w > v /\ ~(w > w)
      BY <1>3, <2>1
    <3>3. \A x, y : y \in Above(x) <=> y \in S /\ y > x
      OBVIOUS
    <3> HIDE DEF Above
    <3> QED BY <3>1, <3>2, <3>3
  <2> HIDE DEF Above
  <2>3. Cardinality(Above(w)) <= Cardinality(Above(v))
        /\ Cardinality(Above(w)) # Cardinality(Above(v))
    BY <1>1, <2>2, FS_Subset
  <2>4. Cardinality(Above(w)) \in Nat /\ Cardinality(Above(v)) \in Nat
    BY <1>1
  <2>5. Cardinality(Above(w)) < Cardinality(Above(v))
    BY <2>3, <2>4
  <2> QED BY <2>5 DEF Rank, Above
<1>4. Rank(S, v) \in Nat /\ Cardinality(S) \in Nat
  BY <1>1, FS_CardinalityType DEF Rank
<1> QED BY <1>2, <1>3, <1>4

\* A finite set of numbers can be listed, the greatest first.
LEMMA ListExists ==
    ASSUME NEW S, IsFiniteSet(S), S \subseteq Nat
    PROVE  \E s \in SetToSeqs(S) : NewestFirst(s)
<1> DEFINE n == Cardinality(S)
           r == [v \in S |-> Rank(S, v) + 1]
<1>1. n \in Nat
  BY FS_CardinalityType
<1>2. \A v \in S : Rank(S, v) \in 0 .. n - 1
  BY RanksFall
<1>3. \A v, w \in S : v < w => Rank(S, w) < Rank(S, v)
  BY RanksFall
<1> HIDE DEF n
<1>4. r \in [S -> 1 .. n]
  <2>1. \A v \in S : Rank(S, v) + 1 \in 1 .. n
    BY <1>1, <1>2
  <2> QED BY <2>1
<1>5. \A v, w \in S : r[v] = r[w] => v = w
  <2> SUFFICES ASSUME NEW v \in S, NEW w \in S, v # w
               PROVE  r[v] # r[w]
    OBVIOUS
  <2>1. v < w \/ w < v
    OBVIOUS
  <2>2. Rank(S, v) # Rank(S, w)
    <3>1. Rank(S, v) \in Int /\ Rank(S, w) \in Int
      BY <1>1, <1>2
    <3> QED BY <1>3, <2>1, <3>1
  <2> QED BY <1>1, <1>2, <2>2
<1>6. r \in Surjection(S, 1 .. n)
  <2>1. r \in Injection(S, 1 .. n)
    <3> HIDE DEF r
    <3> QED BY <1>4, <1>5 DEF Injection, IsInjective
  <2>2. IsFiniteSet(1 .. n) /\ Cardinality(1 .. n) = n
    BY <1>1, FS_Interval
  <2> QED BY <2>1, <2>2, FS_Injection DEF n
<1> DEFINE s == [i \in 1 .. n |-> CHOOSE v \in S : r[v] = i]
<1>7. \A i \in 1 .. n : s[i] \in S /\ r[s[i]] = i
  <2> HIDE DEF r
  <2> QED BY <1>6 DEF Surjection
<1>8. s \in [1 .. n -> S] /\ DOMAIN s = 1 .. n
  <2>1. \A i \in 1 .. n : (CHOOSE v \in S : r[v] = i) \in S
    BY <1>7
  <2> HIDE DEF r
  <2> QED BY <2>1
<1> HIDE DEF s
<1>9. \A i, j \in 1 .. n : i # j => s[i] # s[j]
  BY <1>7
<1>10. ASSUME NEW i \in 1 .. n, NEW j \in 1 .. n, i < j
       PROVE  s[i] > s[j]
  <2>1. s[i] \in S /\ s[j] \in S /\ Rank(S, s[i]) + 1 = i /\ Rank(S, s[j]) + 1 = j
    BY <1>7
  <2>2. s[i] \in Nat /\ s[j] \in Nat /\ Rank(S, s[i]) \in Int /\ Rank(S, s[j]) \in Int
    <3>1. Rank(S, s[i]) \in 0 .. n - 1 /\ Rank(S, s[j]) \in 0 .. n - 1
      BY <1>2, <2>1
    <3>2. s[i] \in Nat /\ s[j] \in Nat
      BY <2>1
    <3> QED BY <1>1, <3>1, <3>2
  <2>3. ~(s[i] < s[j])
    BY <1>1, <1>3, <1>10, <2>1, <2>2
  <2>4. s[i] # s[j]
    BY <1>1, <1>9, <1>10
  <2> QED BY <2>2, <2>3, <2>4
<1>11. s \in SetToSeqs(S)
  BY <1>8, <1>9 DEF SetToSeqs, n
<1> QED BY <1>8, <1>10, <1>11 DEF NewestFirst

\* In such a list an element has as many before it as are greater.
LEMMA ListByRank ==
    ASSUME NEW S, IsFiniteSet(S), S \subseteq Nat, NEW s \in SetToSeqs(S), NewestFirst(s)
    PROVE  /\ DOMAIN s = 1 .. Cardinality(S) /\ Cardinality(S) \in Nat
           /\ \A v \in S : \E i \in DOMAIN s : s[i] = v
           /\ \A i \in DOMAIN s : s[i] \in S /\ Rank(S, s[i]) = i - 1
<1> DEFINE n == Cardinality(S)
<1>1. n \in Nat
  BY FS_CardinalityType
<1>2. s \in [1 .. n -> S] /\ \A i, j \in 1 .. n : i # j => s[i] # s[j]
  BY DEF SetToSeqs
<1>3. s \in Surjection(1 .. n, S)
  <2>1. IsFiniteSet(1 .. n) /\ Cardinality(1 .. n) = Cardinality(S)
    BY <1>1, FS_Interval
  <2>2. s \in Injection(1 .. n, S)
    BY <1>2 DEF Injection, IsInjective
  <2> QED BY <2>1, <2>2, FS_Injection
<1> HIDE DEF n
<1>4. ASSUME NEW i \in 1 .. n
      PROVE  Rank(S, s[i]) = i - 1
  <2> DEFINE T == {w \in S : w > s[i]}
             g == [j \in 1 .. i - 1 |-> s[j]]
  <2>1. i - 1 \in Nat /\ \A j \in 1 .. i - 1 : j \in 1 .. n /\ j < i
    BY <1>1
  <2>2. \A j \in 1 .. n : j < i => s[j] > s[i]
    BY <1>2 DEF NewestFirst
  <2>3. ASSUME NEW w \in T
        PROVE  \E j \in 1 .. i - 1 : s[j] = w
    <3>1. PICK j \in 1 .. n : s[j] = w
      BY <1>3 DEF Surjection
    <3>2. j < i
      <4>1. s[i] \in Nat /\ s[j] \in Nat /\ s[j] > s[i]
        BY <1>2, <3>1
      <4>2. j # i
        BY <4>1
      <4>3. ~(i < j)
        <5>1. i < j => s[i] > s[j]
          BY <1>2 DEF NewestFirst
        <5> QED BY <4>1, <5>1
      <4> QED BY <1>1, <4>2, <4>3
    <3> QED BY <1>1, <3>1, <3>2
  <2>4. g \in [1 .. i - 1 -> T]
    BY <1>2, <2>1, <2>2
  <2>5. \A j, k \in 1 .. i - 1 : g[j] = g[k] => j = k
    BY <1>2, <2>1
  <2>6. \A w \in T : \E j \in 1 .. i - 1 : g[j] = w
    BY <2>3
  <2> HIDE DEF g, T
  <2>7. g \in Bijection(1 .. i - 1, T)
    BY <2>4, <2>5, <2>6 DEF Bijection, Injection, Surjection, IsInjective
  <2>8. Cardinality(T) = i - 1
    BY <2>1, <2>7, FS_CountingElements DEF ExistsBijection
  <2> QED BY <2>8 DEF Rank, T
<1> QED BY <1>1, <1>2, <1>3, <1>4 DEF Surjection, n

\* Deleting what comes after the first versions of a path is keeping those with
\* few newer ones, whatever gaps there are.
THEOREM RankTheorem == Spec => []CleanupIsByRank
<1>1. DatabaseInv => CleanupIsByRank
  <2> SUFFICES ASSUME DatabaseInv, NEW p \in Path, NEW keep \in 0 .. MaxVersion
               PROVE  CleanOldVersions(files, {p}, keep) = CleanedInOrder(files, p, keep)
    BY DEF CleanupIsByRank
  <2> DEFINE S == Versions(files, p)
             s == CHOOSE u \in SetToSeqs(S) : NewestFirst(u)
             dropped == {<<p, s[i]>> : i \in {j \in DOMAIN s : j > keep}}
             Kept == {k \in DOMAIN files :
                        k[1] \in {p} => Cardinality({v \in Versions(files, k[1]) : v > k[2]}) < keep}
  <2>1. DOMAIN files \subseteq Path \X (1 .. MaxVersion) /\ MaxVersion \in Nat
    BY BoundAssumption DEF DatabaseInv, Shape
  <2>2. S \subseteq 1 .. MaxVersion /\ keep \in Nat
    BY <2>1, NewestVersion
  <2>3. IsFiniteSet(S) /\ S \subseteq Nat
    <3>1. IsFiniteSet(1 .. MaxVersion) /\ 1 .. MaxVersion \subseteq Nat
      BY <2>1, FS_Interval
    <3> HIDE DEF S
    <3> QED BY <2>2, <3>1, FS_Subset
  <2>4. \A v : v \in S <=> <<p, v>> \in DOMAIN files
    BY VersionsOf
  <2> HIDE DEF S
  <2>5. s \in SetToSeqs(S) /\ NewestFirst(s)
    BY <2>3, ListExists
  <2> HIDE DEF s
  <2>6. /\ DOMAIN s = 1 .. Cardinality(S) /\ Cardinality(S) \in Nat
        /\ \A v \in S : \E i \in DOMAIN s : s[i] = v
        /\ \A i \in DOMAIN s : s[i] \in S /\ Rank(S, s[i]) = i - 1
    BY <2>3, <2>5, ListByRank
  <2>7. ASSUME NEW k \in DOMAIN files
        PROVE  k \in Kept <=> k \notin dropped
    <3>1. k = <<k[1], k[2]>>
      BY <2>1
    <3>2. CASE k[1] # p
      BY <3>2
    <3>3. CASE k[1] = p
      <4>1. k[2] \in S
        BY <2>4, <3>1, <3>3
      <4>2. PICK i \in DOMAIN s : s[i] = k[2]
        BY <2>6, <4>1
      <4>3. Rank(S, k[2]) = i - 1 /\ i \in Nat
        BY <2>6, <4>2
      <4>4. \A j \in DOMAIN s : s[j] = k[2] => j = i
        BY <2>6, <4>2
      <4>5. k \in dropped <=> i > keep
        BY <3>1, <3>3, <4>2, <4>4
      <4>6. k \in Kept <=> Rank(S, k[2]) < keep
        BY <3>3 DEF Rank, S
      <4> QED BY <2>2, <4>3, <4>5, <4>6
    <3> QED BY <3>2, <3>3
  <2> HIDE DEF Kept, dropped
  <2>8. Kept \subseteq DOMAIN files
    BY DEF Kept
  <2>9. Kept = DOMAIN files \ dropped
    BY <2>7, <2>8
  <2>10. CleanOldVersions(files, {p}, keep) = Restrict(files, Kept)
    BY DEF CleanOldVersions, Kept
  <2>11. CleanedInOrder(files, p, keep) = Restrict(files, DOMAIN files \ dropped)
    BY DEF CleanedInOrder, dropped, s, S
  <2> QED BY <2>9, <2>10, <2>11
<1> QED BY <1>1, DatabaseInvariance, PTL

===============================================================================
