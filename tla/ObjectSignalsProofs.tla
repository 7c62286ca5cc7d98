-------------------------- MODULE ObjectSignalsProofs --------------------------
(***************************************************************************)
(* Proofs about ObjectSignals for any set of objects and signals, any      *)
(* number of connections and any depth of emissions: both ends of every    *)
(* connection agree, flags point to calls that have not returned, and the  *)
(* slots called are those of SignalsAndSlots.  No connection is numbered   *)
(* twice, which is what makes counts and calls exact.                      *)
(***************************************************************************)
EXTENDS ObjectSignals, SequenceTheorems, FiniteSetTheorems, TLAPS

\* Entries are those of living objects, each with an id of its own; a connection lasts
\* no longer than its receiver.
Entries ==
    /\ \A o \in Objects : \A c \in connections[o] :
           /\ c.id <= made /\ o \in alive
           /\ c.connected /\ c.receiver \in Objects => c.receiver \in alive
    /\ \A o, p \in Objects : \A c \in connections[o], d \in connections[p] :
           c.id = d.id => o = p /\ c = d

Counted == \A r, e \in Objects : emitters[r][e] = Count(Connected(connections[e]), r)

\* Who emits has a call whose flag its destructor sets, and knows what it has to erase.
Flags ==
    \A o \in Objects :
        /\ ~hasToCleanup[o] => \A c \in connections[o] : c.connected
        /\ hasToCleanup[o] => isEmitting[o]
        /\ isEmitting[o] <=> pIsDestroyed[o] # 0
        /\ isEmitting[o] =>
               /\ o \in alive
               /\ pIsDestroyed[o] \in 1..Depth /\ emissions[pIsDestroyed[o]].emitter = o

\* Every call reads the flag of the first call of the same emitter.
Calls ==
    \A i \in 1..Depth :
        /\ emissions[i].flag \in 1..i
        /\ emissions[emissions[i].flag].emitter = emissions[i].emitter
        /\ emissions[i].isFirstToEmit <=> emissions[i].flag = i
        /\ emissions[i].emitter \in alive =>
               /\ isEmitting[emissions[i].emitter]
               /\ pIsDestroyed[emissions[i].emitter] = emissions[i].flag
        /\ emissions[emissions[i].flag].isDestroyed <=> emissions[i].emitter \notin alive
        /\ i < Depth => emissions[i].calling
        /\ ~emissions[i].calling => emissions[i].emitter \in alive
        /\ emissions[i].calling => emissions[i].rest >= 1
        /\ emissions[i].rest <= made

SignalsInvariant == TypeOK /\ Entries /\ Counted /\ Flags /\ Calls

-----------------------------------------------------------------------------
(* Lists of connections. *)

DistinctIds(list) == \A c, d \in list : c.id = d.id => c = d

LEMMA ListsAreFinite ==
    ASSUME NEW list \in SUBSET ConnectionData, DistinctIds(list)
    PROVE  IsFiniteSet(list)
<1> DEFINE f == [c \in list |-> c.id]
<1>1. f \in Injection(list, 1..MaxConnections)
  BY DEF DistinctIds, ConnectionData, Injection, IsInjective
<1>2. IsFiniteSet(1..MaxConnections)  BY BoundsAssumption, FS_Interval
<1> QED  BY <1>1, <1>2, FS_Injection

LEMMA CountIsNat ==
    ASSUME NEW S, IsFiniteSet(S), NEW r
    PROVE  /\ Count(S, r) \in Nat
           /\ Count(S, r) = 0 <=> \A c \in S : c.receiver # r
<1> DEFINE R == {c \in S : c.receiver = r}
<1>1. IsFiniteSet(R)  BY FS_Subset
<1>2. Cardinality(R) \in Nat /\ (Cardinality(R) = 0 <=> R = {})
  BY <1>1, FS_CardinalityType, FS_EmptySet
<1> QED  BY <1>2 DEF Count

LEMMA CountOfMore ==
    ASSUME NEW S, IsFiniteSet(S), NEW c, c \notin S, NEW r
    PROVE  Count(S \cup {c}, r) = IF c.receiver = r THEN Count(S, r) + 1 ELSE Count(S, r)
<1> DEFINE R == {d \in S : d.receiver = r}
           A == {d \in S \cup {c} : d.receiver = r}
<1>1. IsFiniteSet(R)  BY FS_Subset
<1>2. CASE c.receiver = r
  <2>1. A = R \cup {c}  BY <1>2
  <2>2. Cardinality(R \cup {c}) = Cardinality(R) + 1
    <3>1. c \notin R  OBVIOUS
    <3> HIDE DEF R
    <3> QED  BY <1>1, <3>1, FS_AddElement
  <2> QED  BY <1>2, <2>1, <2>2 DEF Count
<1>3. CASE c.receiver # r
  <2>1. A = R  BY <1>3
  <2> QED  BY <1>3, <2>1 DEF Count
<1> QED  BY <1>2, <1>3

LEMMA CountOfFewer ==
    ASSUME NEW S, IsFiniteSet(S), NEW G \in SUBSET S, NEW r
    PROVE  /\ Count(S \ G, r) = Count(S, r) - Count(G, r)
           /\ Count(G, r) \in Nat /\ Count(S, r) \in Nat /\ Count(G, r) <= Count(S, r)
<1> DEFINE R == {c \in S : c.receiver = r}
           H == {c \in G : c.receiver = r}
           D == {c \in S \ G : c.receiver = r}
<1>1. IsFiniteSet(R) /\ H \in SUBSET R /\ D = R \ H /\ R \cap H = H
  BY FS_Subset
<1> HIDE DEF R, H, D
<1>2. Cardinality(D) = Cardinality(R) - Cardinality(H)  BY <1>1, FS_Difference
<1>3. IsFiniteSet(H) /\ Cardinality(H) <= Cardinality(R)  BY <1>1, FS_Subset
<1>4. Cardinality(R) \in Nat /\ Cardinality(H) \in Nat  BY <1>1, <1>3, FS_CardinalityType
<1> QED  BY <1>2, <1>3, <1>4 DEF Count, R, H, D

LEMMA Marked ==
    ASSUME NEW c \in ConnectionData
    PROVE  LET m == [c EXCEPT !.connected = FALSE]
           IN  /\ m \in ConnectionData /\ m.id = c.id /\ m.receiver = c.receiver
               /\ ~m.connected
BY DEF ConnectionData

\* w is what is left of list: no entry of it is new, but some may have been marked.
Remains(w, list) ==
    /\ w \subseteq ConnectionData /\ DistinctIds(w)
    /\ \A d \in w : \E c \in list :
           c.id = d.id /\ c.receiver = d.receiver /\ (d.connected => d = c)

\* What disconnecting leaves of a list.
LEMMA Left ==
    ASSUME NEW o, NEW list \in SUBSET ConnectionData, DistinctIds(list),
           NEW gone \in SUBSET Connected(list)
    PROVE  /\ Remains(Without(o, list, gone), list)
           /\ ~isEmitting[o] => Without(o, list, gone) = list \ gone
<1> DEFINE w == Without(o, list, gone)
           M == {[c EXCEPT !.connected = FALSE] : c \in gone}
<1>1. gone \subseteq list  BY DEF Connected
<1>2. \A m \in M : \E c \in gone : /\ m \in ConnectionData /\ m.id = c.id
                                   /\ m.receiver = c.receiver /\ ~m.connected
  BY <1>1, Marked
<1>3. \A m, k \in M : m.id = k.id => m = k
  <2> SUFFICES ASSUME NEW c \in gone, NEW d \in gone,
                      [c EXCEPT !.connected = FALSE].id = [d EXCEPT !.connected = FALSE].id
               PROVE  [c EXCEPT !.connected = FALSE] = [d EXCEPT !.connected = FALSE]
    OBVIOUS
  <2>1. c.id = d.id  BY <1>1, Marked
  <2> QED  BY <1>1, <2>1 DEF DistinctIds
<1>4. w \subseteq (list \ gone) \cup M /\ list \ gone \subseteq w
  BY DEF Without
<1>8. ~isEmitting[o] => w = list \ gone  BY DEF Without
<1> HIDE DEF M, w
<1>5. w \in SUBSET ConnectionData  BY <1>2, <1>4
<1>6. DistinctIds(w)
  <2> SUFFICES ASSUME NEW c \in w, NEW d \in w, c.id = d.id
               PROVE  c = d
    BY DEF DistinctIds
  <2>1. CASE c \in list \ gone /\ d \in list \ gone  BY <2>1 DEF DistinctIds
  <2>2. CASE c \in M /\ d \in M  BY <1>3, <2>2
  <2>3. CASE c \in list \ gone /\ d \in M  BY <1>1, <1>2, <2>3 DEF DistinctIds
  <2>4. CASE d \in list \ gone /\ c \in M  BY <1>1, <1>2, <2>4 DEF DistinctIds
  <2> QED  BY <1>4, <2>1, <2>2, <2>3, <2>4
<1>7. \A d \in w : \E c \in list : c.id = d.id /\ c.receiver = d.receiver
                                   /\ (d.connected => d = c)
  BY <1>1, <1>2, <1>4
<1> QED  BY <1>5, <1>6, <1>7, <1>8 DEF Remains, w

LEMMA LeftConnected ==
    ASSUME NEW o, NEW list \in SUBSET ConnectionData, DistinctIds(list),
           NEW gone \in SUBSET Connected(list)
    PROVE  Connected(Without(o, list, gone)) = Connected(list) \ gone
<1> DEFINE w == Without(o, list, gone)
           M == {[c EXCEPT !.connected = FALSE] : c \in gone}
<1>1. gone \subseteq list  BY DEF Connected
<1>2. \A m \in M : ~m.connected  BY <1>1, Marked
<1>3. w \subseteq (list \ gone) \cup M /\ list \ gone \subseteq w
  BY DEF Without
<1> HIDE DEF M, w
<1>4. Connected(w) = Connected(list) \ gone  BY <1>2, <1>3 DEF Connected
<1> QED  BY <1>4 DEF w

LEMMA ListOf ==
    ASSUME TypeOK, Entries, NEW o \in Objects
    PROVE  /\ connections[o] \in SUBSET ConnectionData /\ DistinctIds(connections[o])
           /\ IsFiniteSet(connections[o]) /\ IsFiniteSet(Connected(connections[o]))
<1>1. connections[o] \in SUBSET ConnectionData  BY DEF TypeOK
<1>2. DistinctIds(connections[o])  BY DEF Entries, DistinctIds
<1>3. IsFiniteSet(connections[o])  BY <1>1, <1>2, ListsAreFinite
<1>4. Connected(connections[o]) \in SUBSET connections[o]  BY DEF Connected
<1> QED  BY <1>1, <1>2, <1>3, <1>4, FS_Subset

LEMMA ListRemains ==
    ASSUME TypeOK, Entries, NEW o \in Objects
    PROVE  Remains(connections[o], connections[o])
BY ListOf DEF Remains

\* Entries that go, or are marked, are no harm to the others.
LEMMA EntriesRemain ==
    ASSUME Entries, \A o \in Objects : Remains(connections'[o], connections[o]),
           made' = made, alive' = alive
    PROVE  Entries'
<1>1. \A p \in Objects : \A c \in connections'[p] :
         /\ c.id <= made' /\ p \in alive'
         /\ c.connected /\ c.receiver \in Objects => c.receiver \in alive'
  BY DEF Remains, Entries
<1>2. ASSUME NEW p \in Objects, NEW q \in Objects,
             NEW c \in connections'[p], NEW d \in connections'[q], c.id = d.id
      PROVE  p = q /\ c = d
  <2>1. PICK a \in connections[p] : a.id = c.id  BY DEF Remains
  <2>2. PICK b \in connections[q] : b.id = d.id  BY DEF Remains
  <2>3. p = q  BY <1>2, <2>1, <2>2 DEF Entries
  <2> QED  BY <1>2, <2>3 DEF Remains, DistinctIds
<1> QED  BY <1>1, <1>2 DEF Entries

-----------------------------------------------------------------------------
(* The calls of emitSignal. *)

LEMMA TopOfStack ==
    ASSUME NEW S, NEW s \in Seq(S), s # <<>>
    PROVE  /\ Front(s) \in Seq(S) /\ Len(Front(s)) = Len(s) - 1
           /\ \A i \in 1..(Len(s) - 1) : Front(s)[i] = s[i]
           /\ Last(s) = s[Len(s)] /\ Last(s) \in S
           /\ Len(s) \in Nat \ {0}
<1>1. Len(s) \in Nat \ {0} /\ s[Len(s)] \in S
  BY EmptySeq, ElementOfSeq, LenProperties
<1> DEFINE n == Len(s) - 1
<1>2. n \in Nat /\ \A i \in 1..n : s[i] \in S  BY <1>1, ElementOfSeq
<1>3. /\ SubSeq(s, 1, n) \in Seq(S)
      /\ Len(SubSeq(s, 1, n)) = n
      /\ \A i \in 1..n : SubSeq(s, 1, n)[i] = s[i]
  <2> HIDE DEF n
  <2>1. /\ SubSeq(s, 1, n) \in Seq(S)
        /\ Len(SubSeq(s, 1, n)) = IF 1 <= n THEN n - 1 + 1 ELSE 0
        /\ \A i \in 1..(n - 1 + 1) : SubSeq(s, 1, n)[i] = s[1 + i - 1]
    BY <1>2, SubSeqProperties
  <2> QED  BY <1>2, <2>1
<1> QED  BY <1>1, <1>3 DEF Front, Last

LEMMA Appended ==
    ASSUME NEW S, NEW s \in Seq(S), NEW e \in S
    PROVE  /\ Append(s, e) \in Seq(S) /\ Append(s, e) # <<>>
           /\ Len(Append(s, e)) = Len(s) + 1 /\ Len(s) \in Nat
           /\ \A i \in 1..Len(s) : Append(s, e)[i] = s[i]
           /\ Append(s, e)[Len(s) + 1] = e
BY AppendProperties, LenProperties

LEMMA Changed ==
    ASSUME NEW S, NEW s \in Seq(S), NEW k \in 1..Len(s), NEW x \in S
    PROVE  /\ [s EXCEPT ![k] = x] \in Seq(S) /\ Len([s EXCEPT ![k] = x]) = Len(s)
           /\ \A j \in 1..Len(s) : [s EXCEPT ![k] = x][j] = IF j = k THEN x ELSE s[j]
BY ExceptSeq

LEMMA Stack ==
    ASSUME TypeOK
    PROVE  /\ Depth \in Nat /\ emissions \in [1..Depth -> Emission]
           /\ emissions = <<>> <=> Depth = 0
           /\ emissions # <<>> => Top = emissions[Depth] /\ Depth \in 1..Depth
<1>1. emissions \in Seq(Emission)  BY DEF TypeOK
<1>2. Depth \in Nat /\ emissions \in [1..Depth -> Emission]
  BY <1>1, LenProperties DEF Depth
<1>3. emissions = <<>> <=> Depth = 0  BY <1>1, EmptySeq DEF Depth
<1>4. emissions # <<>> => Last(emissions) = emissions[Len(emissions)]  BY <1>1, TopOfStack
<1> QED  BY <1>2, <1>3, <1>4 DEF Depth, Top

\* While user code runs, every emission is in a slot.
LEMMA AllCalling ==
    ASSUME TypeOK, Calls, UserRuns
    PROVE  \A i \in 1..Depth : emissions[i].calling
BY Stack DEF Calls, UserRuns

-----------------------------------------------------------------------------
(* Every step keeps the invariant. *)

LEMMA InitHolds == Init => SignalsInvariant
<1> SUFFICES ASSUME Init PROVE SignalsInvariant  OBVIOUS
<1>1. emissions = <<>> /\ Depth = 0  BY EmptySeq DEF Init, Depth
<1>2. TypeOK
  <2>1. emissions \in Seq(Emission)  BY <1>1, EmptySeq
  <2>2. made \in 0..MaxConnections /\ 0 \in 0..MaxDepth  BY BoundsAssumption DEF Init
  <2>3. /\ connections \in [Objects -> SUBSET ConnectionData]
        /\ emitters \in [Objects -> [Objects -> Nat]]
        /\ pIsDestroyed \in [Objects -> 0..MaxDepth]
    BY <2>2 DEF Init
  <2>4. /\ alive \subseteq Objects /\ touchesDestroyed \in BOOLEAN
        /\ isEmitting \in [Objects -> BOOLEAN] /\ hasToCleanup \in [Objects -> BOOLEAN]
    BY DEF Init
  <2> QED  BY <2>1, <2>2, <2>3, <2>4 DEF TypeOK
<1>3. Entries  BY DEF Init, Entries
<1>4. Counted
  <2>1. \A e \in Objects : Connected(connections[e]) = {}  BY DEF Init, Connected
  <2>2. \A r : Count({}, r) = 0  BY FS_EmptySet, CountIsNat
  <2> QED  BY <2>1, <2>2 DEF Init, Counted
<1>5. Flags /\ Calls  BY <1>1 DEF Init, Flags, Calls
<1> QED  BY <1>2, <1>3, <1>4, <1>5 DEF SignalsInvariant

LEMMA ConnectKeeps ==
    ASSUME SignalsInvariant, NEW o \in Objects, NEW s \in Signals, NEW r \in Receivers,
           Connect(o, s, r)
    PROVE  SignalsInvariant'
<1> USE DEF SignalsInvariant
<1> DEFINE new == [id |-> made + 1, signal |-> s, receiver |-> r, connected |-> TRUE]
<1>1. /\ made < MaxConnections /\ made' = made + 1 /\ o \in alive /\ r \in alive \cup {NoReceiver}
      /\ connections' = [connections EXCEPT ![o] = connections[o] \cup {new}]
      /\ emitters' = IF r = NoReceiver THEN emitters
                     ELSE [emitters EXCEPT ![r][o] = emitters[r][o] + 1]
      /\ UNCHANGED <<alive, isEmitting, hasToCleanup, pIsDestroyed, emissions, touchesDestroyed>>
  BY DEF Connect
<1>2. new \in ConnectionData /\ new.id = made + 1 /\ new.receiver = r /\ new.connected
  BY <1>1, BoundsAssumption DEF ConnectionData, TypeOK
<1> HIDE DEF new
<1>3. \A p \in Objects : connections'[p] = IF p = o THEN connections[o] \cup {new} ELSE connections[p]
  BY <1>1 DEF TypeOK
<1>4. TypeOK'
  <2>1. connections' \in [Objects -> SUBSET ConnectionData]  BY <1>1, <1>2 DEF TypeOK
  <2>2. emitters' \in [Objects -> [Objects -> Nat]]
    <3>1. CASE r = NoReceiver  BY <1>1, <3>1 DEF TypeOK
    <3>2. CASE r # NoReceiver
      <4>1. r \in Objects  BY <3>2 DEF Receivers
      <4>2. [emitters[r] EXCEPT ![o] = emitters[r][o] + 1] \in [Objects -> Nat]
        BY <4>1 DEF TypeOK
      <4>3. emitters' = [emitters EXCEPT ![r] = [emitters[r] EXCEPT ![o] = emitters[r][o] + 1]]
        BY <1>1, <3>2
      <4> QED  BY <4>1, <4>2, <4>3 DEF TypeOK
    <3> QED  BY <3>1, <3>2
  <2> QED  BY <1>1, <2>1, <2>2, BoundsAssumption DEF TypeOK
<1>5. Entries'
  <2>1. \A p \in Objects : \A c \in connections[p] : c.id # new.id /\ c.id <= made + 1
    BY <1>2 DEF Entries, TypeOK, ConnectionData
  <2>2. \A p \in Objects : \A c \in connections'[p] :
           /\ c.id <= made' /\ p \in alive'
           /\ c.connected /\ c.receiver \in Objects => c.receiver \in alive'
    <3> SUFFICES ASSUME NEW p \in Objects, NEW c \in connections'[p]
                 PROVE  /\ c.id <= made' /\ p \in alive
                        /\ c.connected /\ c.receiver \in Objects => c.receiver \in alive
      BY <1>1
    <3>1. c \in connections[p] \/ (p = o /\ c = new)  BY <1>3
    <3>2. CASE c \in connections[p]  BY <1>1, <2>1, <3>2 DEF Entries
    <3>3. CASE p = o /\ c = new
      BY <1>1, <1>2, <3>3, NoReceiverAssumption DEF TypeOK
    <3> QED  BY <3>1, <3>2, <3>3
  <2>3. ASSUME NEW p \in Objects, NEW q \in Objects,
               NEW c \in connections'[p], NEW d \in connections'[q], c.id = d.id
        PROVE  p = q /\ c = d
    <3>1. (c \in connections[p] \/ (p = o /\ c = new)) /\ (d \in connections[q] \/ (q = o /\ d = new))
      BY <1>3
    <3> QED  BY <2>1, <2>3, <3>1 DEF Entries
  <2> QED  BY <2>2, <2>3 DEF Entries
<1>6. Counted'
  <2> SUFFICES ASSUME NEW q \in Objects, NEW e \in Objects
               PROVE  emitters'[q][e] = Count(Connected(connections'[e]), q)
    BY DEF Counted
  <2>0. emitters[q][e] = Count(Connected(connections[e]), q)  BY DEF Counted
  <2>1. CASE e = o
    <3>1. Connected(connections'[e]) = Connected(connections[o]) \cup {new}
      BY <1>2, <1>3, <2>1 DEF Connected
    <3>2. new \notin Connected(connections[o])
      BY <1>2 DEF Connected, Entries, TypeOK, ConnectionData
    <3>3. IsFiniteSet(Connected(connections[o]))  BY ListOf
    <3>4. Count(Connected(connections'[e]), q) =
            IF r = q THEN Count(Connected(connections[o]), q) + 1
            ELSE Count(Connected(connections[o]), q)
      <4> DEFINE C == Connected(connections[o])
      <4> HIDE DEF C
      <4>1. IsFiniteSet(C) /\ new \notin C  BY <3>2, <3>3 DEF C
      <4>2. Count(C \cup {new}, q) = IF new.receiver = q THEN Count(C, q) + 1 ELSE Count(C, q)
        BY <4>1, CountOfMore
      <4> QED  BY <1>2, <3>1, <4>2 DEF C
    <3>5. emitters'[q][e] = IF r = q THEN emitters[q][o] + 1 ELSE emitters[q][o]
      BY <1>1, <2>1, NoReceiverAssumption DEF TypeOK
    <3> QED  BY <2>0, <2>1, <3>4, <3>5
  <2>2. CASE e # o
    <3>1. emitters'[q][e] = emitters[q][e]  BY <1>1, <2>2 DEF TypeOK
    <3> QED  BY <1>3, <2>0, <2>2, <3>1
  <2> QED  BY <2>1, <2>2
<1>7. Flags'  BY <1>1, <1>2, <1>3 DEF Flags, Depth
<1>8. Calls'
  <2>1. \A i \in 1..Depth : emissions[i].rest \in Int
    BY Stack DEF Emission
  <2> QED  BY <1>1, <2>1 DEF Calls, Depth, TypeOK
<1> QED  BY <1>4, <1>5, <1>6, <1>7, <1>8

LEMMA DisconnectKeeps ==
    ASSUME SignalsInvariant, NEW o \in Objects, NEW ss, NEW rs, Disconnect(o, ss, rs)
    PROVE  SignalsInvariant'
<1> USE DEF SignalsInvariant
<1> DEFINE gone == Matching(o, ss, rs)
           list == connections[o]
           w == Without(o, list, gone)
<1>1. /\ connections' = [connections EXCEPT ![o] = w]
      /\ emitters' = RemoveEmitters(emitters, o, gone)
      /\ hasToCleanup' = [hasToCleanup EXCEPT ![o] = hasToCleanup[o] \/ isEmitting[o]]
      /\ UNCHANGED <<alive, isEmitting, pIsDestroyed, emissions, made, touchesDestroyed>>
  BY DEF Disconnect
<1>2. /\ list \in SUBSET ConnectionData /\ DistinctIds(list) /\ IsFiniteSet(Connected(list))
      /\ gone \in SUBSET Connected(list)
  BY ListOf DEF Matching
<1>3. /\ Remains(w, list) /\ Connected(w) = Connected(list) \ gone
      /\ ~isEmitting[o] => w = list \ gone
  <2> HIDE DEF gone, list
  <2>1. Remains(w, list)  BY <1>2, Left
  <2>2. Connected(w) = Connected(list) \ gone
    BY <1>2, LeftConnected
  <2>3. ~isEmitting[o] => w = list \ gone  BY <1>2, Left
  <2> QED  BY <2>1, <2>2, <2>3
<1>4. \A p \in Objects : connections'[p] = IF p = o THEN w ELSE connections[p]
  BY <1>1 DEF TypeOK
<1> HIDE DEF gone, w
<1>5. \A r \in Objects : /\ Count(Connected(w), r) = Count(Connected(list), r) - Count(gone, r)
                         /\ Count(gone, r) \in Nat /\ Count(Connected(list), r) \in Nat
                         /\ Count(gone, r) <= Count(Connected(list), r)
  <2> HIDE DEF list
  <2> QED  BY <1>2, <1>3, CountOfFewer
<1>6. Counted'
  <2> SUFFICES ASSUME NEW r \in Objects, NEW e \in Objects
               PROVE  emitters'[r][e] = Count(Connected(connections'[e]), r)
    BY DEF Counted
  <2>0. emitters[r][e] = Count(Connected(connections[e]), r)  BY DEF Counted
  <2>1. emitters'[r][e] =
          IF e = o THEN IF emitters[r][o] > Count(gone, r) THEN emitters[r][o] - Count(gone, r) ELSE 0
          ELSE emitters[r][e]
    BY <1>1 DEF RemoveEmitters, TypeOK
  <2>2. CASE e = o  BY <1>4, <1>5, <2>0, <2>1, <2>2
  <2>3. CASE e # o  BY <1>4, <2>0, <2>1, <2>3
  <2> QED  BY <2>2, <2>3
<1>7. TypeOK'
  <2>1. connections' \in [Objects -> SUBSET ConnectionData]  BY <1>1, <1>3 DEF TypeOK, Remains
  <2>2. emitters' \in [Objects -> [Objects -> Nat]]
    <3>1. \A r \in Objects :
            [emitters[r] EXCEPT ![o] = IF @ > Count(gone, r) THEN @ - Count(gone, r) ELSE 0]
              \in [Objects -> Nat]
      BY <1>5 DEF TypeOK
    <3> QED  BY <1>1, <3>1 DEF RemoveEmitters
  <2> QED  BY <1>1, <2>1, <2>2 DEF TypeOK
<1>8. Entries'
  <2>1. \A p \in Objects : Remains(connections'[p], connections[p])
    BY <1>3, <1>4, ListRemains
  <2> QED  BY <1>1, <2>1, EntriesRemain
<1>9. Flags'
  <2> SUFFICES ASSUME NEW p \in Objects
               PROVE  /\ ~hasToCleanup'[p] => \A c \in connections'[p] : c.connected
                      /\ hasToCleanup'[p] => isEmitting[p]
    BY <1>1 DEF Flags, Depth
  <2>1. hasToCleanup'[p] = IF p = o THEN hasToCleanup[o] \/ isEmitting[o] ELSE hasToCleanup[p]
    BY <1>1 DEF TypeOK
  <2>2. /\ ~hasToCleanup[p] => \A c \in connections[p] : c.connected
        /\ hasToCleanup[p] => isEmitting[p]
    BY DEF Flags
  <2>3. CASE p = o /\ ~isEmitting[o]  BY <1>3, <1>4, <2>1, <2>2, <2>3
  <2>4. CASE p = o /\ isEmitting[o]  BY <2>1, <2>4
  <2>5. CASE p # o  BY <1>4, <2>1, <2>2, <2>5
  <2> QED  BY <2>3, <2>4, <2>5
<1>10. Calls'  BY <1>1 DEF Calls, Depth
<1> QED  BY <1>6, <1>7, <1>8, <1>9, <1>10

\* What ~Object leaves of the list of e: nothing of it is connected to o.
LeftBy(o, e) ==
    IF emitters[o][e] > 0 THEN Without(e, connections[e], Matching(e, Signals, {o}))
    ELSE connections[e]

LEMMA LeftByDestroyed ==
    ASSUME TypeOK, Entries, Counted, NEW o \in Objects, NEW e \in Objects
    PROVE  /\ Remains(LeftBy(o, e), connections[e])
           /\ Connected(LeftBy(o, e)) = {c \in Connected(connections[e]) : c.receiver # o}
           /\ ~isEmitting[e] => LeftBy(o, e) \subseteq connections[e]
<1> DEFINE list == connections[e]
           gone == Matching(e, Signals, {o})
<1>1. /\ list \in SUBSET ConnectionData /\ DistinctIds(list) /\ IsFiniteSet(Connected(list))
      /\ gone \in SUBSET Connected(list)
  BY ListOf DEF Matching
<1>2. CASE emitters[o][e] > 0
  <2>1. LeftBy(o, e) = Without(e, list, gone)  BY <1>2 DEF LeftBy
  <2>2. /\ Remains(Without(e, list, gone), list)
        /\ Connected(Without(e, list, gone)) = Connected(list) \ gone
        /\ ~isEmitting[e] => Without(e, list, gone) = list \ gone
    <3> HIDE DEF gone, list
    <3>1. Remains(Without(e, list, gone), list)  BY <1>1, Left
    <3>2. Connected(Without(e, list, gone)) = Connected(list) \ gone  BY <1>1, LeftConnected
    <3>3. ~isEmitting[e] => Without(e, list, gone) = list \ gone  BY <1>1, Left
    <3> QED  BY <3>1, <3>2, <3>3
  <2>3. Connected(list) \ gone = {c \in Connected(list) : c.receiver # o}
    BY <1>1 DEF Matching, Connected, ConnectionData
  <2> HIDE DEF gone
  <2> QED  BY <2>1, <2>2, <2>3
<1>3. CASE ~(emitters[o][e] > 0)
  <2>1. LeftBy(o, e) = list  BY <1>3 DEF LeftBy
  <2>2. \A c \in Connected(list) : c.receiver # o
    <3>1. Count(Connected(list), o) = 0  BY <1>3 DEF Counted, TypeOK
    <3> HIDE DEF list
    <3> QED  BY <1>1, <3>1, CountIsNat
  <2>3. Remains(list, list)  BY ListRemains
  <2>4. Connected(list) = {c \in Connected(list) : c.receiver # o}  BY <2>2
  <2> QED  BY <2>1, <2>3, <2>4
<1> QED  BY <1>2, <1>3

\* Of the calls, only the flag that belongs to o changes.
LEMMA DestroyedCalls ==
    ASSUME SignalsInvariant, NEW o \in Objects, Destroy(o)
    PROVE  /\ emissions' \in Seq(Emission) /\ Depth' = Depth
           /\ \A i \in 1..Depth :
                /\ emissions'[i].emitter = emissions[i].emitter
                /\ emissions'[i].signal = emissions[i].signal
                /\ emissions'[i].flag = emissions[i].flag
                /\ emissions'[i].isFirstToEmit = emissions[i].isFirstToEmit
                /\ emissions'[i].calling = emissions[i].calling
                /\ emissions'[i].rest = emissions[i].rest
                /\ emissions'[i].isDestroyed <=>
                      emissions[i].isDestroyed \/ (isEmitting[o] /\ i = pIsDestroyed[o])
                /\ emissions[i] \in Emission
<1>1. emissions' = IF isEmitting[o]
                   THEN [emissions EXCEPT ![pIsDestroyed[o]].isDestroyed = TRUE]
                   ELSE emissions
  BY DEF Destroy
<1>2. /\ emissions' \in Seq(Emission) /\ Depth' = Depth
       /\ \A i \in 1..Depth :
            emissions'[i] = IF isEmitting[o] /\ i = pIsDestroyed[o]
                            THEN [emissions[i] EXCEPT !.isDestroyed = TRUE] ELSE emissions[i]
  <2>1. emissions \in Seq(Emission) /\ emissions \in [1..Depth -> Emission]
    BY Stack DEF SignalsInvariant, TypeOK
  <2>2. CASE ~isEmitting[o]  BY <1>1, <2>1, <2>2 DEF Depth
  <2>3. CASE isEmitting[o]
    <3> DEFINE k == pIsDestroyed[o]
               x == [emissions[k] EXCEPT !.isDestroyed = TRUE]
    <3>1. k \in 1..Len(emissions)  BY <2>3 DEF SignalsInvariant, Flags, Depth
    <3>2. x \in Emission  BY <2>1, <3>1 DEF Emission, Depth
    <3>3. emissions' = [emissions EXCEPT ![k] = x]  BY <1>1, <2>3
    <3> HIDE DEF k, x
    <3>4. /\ emissions' \in Seq(Emission) /\ Len(emissions') = Len(emissions)
          /\ \A j \in 1..Len(emissions) : emissions'[j] = IF j = k THEN x ELSE emissions[j]
      <4>1. emissions' \in Seq(Emission)  BY <2>1, <3>1, <3>2, <3>3, Changed
      <4>2. Len(emissions') = Len(emissions)  BY <2>1, <3>1, <3>2, <3>3, Changed
      <4>3. \A j \in 1..Len(emissions) : emissions'[j] = IF j = k THEN x ELSE emissions[j]
        BY <2>1, <3>3 DEF Depth
      <4> QED  BY <4>1, <4>2, <4>3
    <3> QED  BY <2>3, <3>4 DEF Depth, k, x
  <2> QED  BY <2>2, <2>3
<1>3. \A i \in 1..Depth :
         /\ emissions'[i].emitter = emissions[i].emitter /\ emissions'[i].flag = emissions[i].flag
         /\ emissions'[i].isFirstToEmit = emissions[i].isFirstToEmit
         /\ emissions'[i].calling = emissions[i].calling /\ emissions'[i].rest = emissions[i].rest
         /\ emissions'[i].isDestroyed <=>
               emissions[i].isDestroyed \/ (isEmitting[o] /\ i = pIsDestroyed[o])
         /\ emissions'[i].signal = emissions[i].signal /\ emissions[i] \in Emission
  <2> SUFFICES ASSUME NEW i \in 1..Depth
               PROVE  /\ emissions'[i].emitter = emissions[i].emitter
                      /\ emissions'[i].flag = emissions[i].flag
                      /\ emissions'[i].isFirstToEmit = emissions[i].isFirstToEmit
                      /\ emissions'[i].calling = emissions[i].calling
                      /\ emissions'[i].rest = emissions[i].rest
                      /\ emissions'[i].isDestroyed <=>
                            emissions[i].isDestroyed \/ (isEmitting[o] /\ i = pIsDestroyed[o])
                      /\ emissions'[i].signal = emissions[i].signal /\ emissions[i] \in Emission
    OBVIOUS
  <2>1. emissions[i] \in Emission  BY Stack DEF SignalsInvariant
  <2>2. CASE isEmitting[o] /\ i = pIsDestroyed[o]
    <3>1. emissions'[i] = [emissions[i] EXCEPT !.isDestroyed = TRUE]  BY <1>2, <2>2
    <3> QED  BY <2>1, <2>2, <3>1 DEF Emission
  <2>3. CASE ~(isEmitting[o] /\ i = pIsDestroyed[o])
    <3>1. emissions'[i] = emissions[i]  BY <1>2, <2>3
    <3> QED  BY <2>1, <2>3, <3>1
  <2> QED  BY <2>2, <2>3
<1> QED  BY <1>2, <1>3

LEMMA DestroyKeeps ==
    ASSUME SignalsInvariant, NEW o \in Objects, Destroy(o)
    PROVE  SignalsInvariant'
<1> USE DEF SignalsInvariant
<1> DEFINE left == [e \in Objects |-> LeftBy(o, e)]
           removed == RemoveEmitters(emitters, o, left[o])
<1>1. /\ UserRuns /\ o \in alive /\ alive' = alive \ {o}
      /\ emissions' = IF isEmitting[o]
                      THEN [emissions EXCEPT ![pIsDestroyed[o]].isDestroyed = TRUE]
                      ELSE emissions
      /\ connections' = [left EXCEPT ![o] = {}]
      /\ hasToCleanup' = [e \in Objects |->
             e # o /\ (hasToCleanup[e] \/ (isEmitting[e] /\ left[e] # connections[e]))]
      /\ emitters' = [removed EXCEPT ![o] = [e \in Objects |-> 0]]
      /\ isEmitting' = [isEmitting EXCEPT ![o] = FALSE]
      /\ pIsDestroyed' = [pIsDestroyed EXCEPT ![o] = 0]
      /\ touchesDestroyed' \in BOOLEAN
      /\ UNCHANGED made
  <2> DEFINE mine == {e \in Objects : emitters[o][e] > 0}
             left2 == [e \in Objects |->
                    IF e \in mine
                    THEN Without(e, connections[e], Matching(e, Signals, {o}))
                    ELSE connections[e]]
  <2>1. left2 = left  BY DEF LeftBy
  <2>2. touchesDestroyed' \in BOOLEAN  BY DEF Destroy, TypeOK
  <2> QED  BY <2>1, <2>2 DEF Destroy
<1>2. \A e \in Objects : /\ Remains(left[e], connections[e])
                         /\ Connected(left[e]) = {c \in Connected(connections[e]) : c.receiver # o}
                         /\ ~isEmitting[e] => left[e] \subseteq connections[e]
  BY LeftByDestroyed
<1>3. left = [e \in Objects |-> left[e]]  OBVIOUS
<1> HIDE DEF left
<1>4. \A e \in Objects : connections'[e] = IF e = o THEN {} ELSE left[e]
  BY <1>1, <1>3
<1>5. \A e \in Objects : Remains(connections'[e], connections[e])
  BY <1>2, <1>4 DEF Remains, DistinctIds
<1>6. IsFiniteSet(left[o]) /\ Connected(left[o]) \in SUBSET left[o]
  <2>1. left[o] \in SUBSET ConnectionData /\ DistinctIds(left[o])  BY <1>2 DEF Remains
  <2> QED  BY <2>1, ListsAreFinite DEF Connected
<1>7. \A r \in Objects, e \in Objects :
        emitters'[r][e] = IF r = o \/ e = o THEN 0 ELSE emitters[r][e]
  <2> SUFFICES ASSUME NEW r \in Objects, NEW e \in Objects
               PROVE  emitters'[r][e] = IF r = o \/ e = o THEN 0 ELSE emitters[r][e]
    OBVIOUS
  <2>1. CASE r = o
    <3>1. removed = [q \in Objects |-> removed[q]]  BY DEF RemoveEmitters
    <3> HIDE DEF removed
    <3> QED  BY <1>1, <2>1, <3>1
  <2>2. CASE r # o
    <3>1. emitters'[r][e] =
            IF e = o THEN IF emitters[r][o] > Count(left[o], r)
                          THEN emitters[r][o] - Count(left[o], r) ELSE 0
            ELSE emitters[r][e]
      BY <1>1, <2>2 DEF RemoveEmitters, TypeOK
    <3>2. emitters[r][o] <= Count(left[o], r) /\ Count(left[o], r) \in Nat
      <4>1. emitters[r][o] = Count(Connected(connections[o]), r)  BY DEF Counted
      <4>2. Count(Connected(connections[o]), r) = Count(Connected(left[o]), r)
        <5>1. {c \in Connected(connections[o]) : c.receiver = r}
                = {c \in Connected(left[o]) : c.receiver = r}
          BY <1>2, <2>2
        <5> QED  BY <5>1 DEF Count
      <4>3. /\ Count(Connected(left[o]), r) <= Count(left[o], r)
            /\ Count(left[o], r) \in Nat
        BY <1>6, CountOfFewer
      <4> QED  BY <4>1, <4>2, <4>3
    <3>3. emitters[r][o] \in Nat  BY DEF TypeOK
    <3> QED  BY <2>2, <3>1, <3>2, <3>3
  <2> QED  BY <2>1, <2>2
<1>8. Counted'
  <2> SUFFICES ASSUME NEW r \in Objects, NEW e \in Objects
               PROVE  emitters'[r][e] = Count(Connected(connections'[e]), r)
    BY DEF Counted
  <2>1. CASE e = o
    <3>1. Connected(connections'[e]) = {}  BY <1>4, <2>1 DEF Connected
    <3> QED  BY <1>7, <2>1, <3>1, CountIsNat, FS_EmptySet
  <2>2. CASE e # o /\ r = o
    <3>1. /\ \A c \in Connected(connections'[e]) : c.receiver # r
          /\ IsFiniteSet(Connected(connections'[e]))
      <4>1. Connected(connections'[e]) \in SUBSET Connected(connections[e])
        BY <1>2, <1>4, <2>2
      <4>2. IsFiniteSet(Connected(connections[e]))  BY ListOf
      <4> QED  BY <1>2, <1>4, <2>2, <4>1, <4>2, FS_Subset
    <3>2. Count(Connected(connections'[e]), r) = 0  BY <3>1, CountIsNat
    <3> QED  BY <1>7, <2>2, <3>2
  <2>3. CASE e # o /\ r # o
    <3>1. {c \in Connected(connections'[e]) : c.receiver = r}
            = {c \in Connected(connections[e]) : c.receiver = r}
      BY <1>2, <1>4, <2>3
    <3> QED  BY <1>7, <2>3, <3>1 DEF Count, Counted
  <2> QED  BY <2>1, <2>2, <2>3
<1>9. Entries'
  <2>1. \A p \in Objects : \A c \in connections'[p] :
          /\ c.id <= made' /\ p \in alive'
          /\ c.connected /\ c.receiver \in Objects => c.receiver \in alive'
    <3> SUFFICES ASSUME NEW p \in Objects, NEW c \in connections'[p]
                 PROVE  /\ c.id <= made /\ p \in alive \ {o}
                        /\ c.connected /\ c.receiver \in Objects => c.receiver \in alive \ {o}
      BY <1>1
    <3>1. p # o /\ c \in left[p]  BY <1>4
    <3>2. c.connected => c \in Connected(left[p])  BY <3>1 DEF Connected
    <3>3. c.connected => c.receiver # o  BY <1>2, <3>2
    <3>4. PICK d \in connections[p] : d.id = c.id /\ d.receiver = c.receiver
                                      /\ (c.connected => c = d)
      BY <1>5 DEF Remains
    <3> QED  BY <3>1, <3>3, <3>4 DEF Entries
  <2>2. ASSUME NEW p \in Objects, NEW q \in Objects,
               NEW c \in connections'[p], NEW d \in connections'[q], c.id = d.id
        PROVE  p = q /\ c = d
    <3>1. PICK a \in connections[p] : a.id = c.id  BY <1>5 DEF Remains
    <3>2. PICK b \in connections[q] : b.id = d.id  BY <1>5 DEF Remains
    <3>3. p = q  BY <2>2, <3>1, <3>2 DEF Entries
    <3> QED  BY <1>5, <2>2, <3>3 DEF Remains, DistinctIds
  <2> QED  BY <2>1, <2>2 DEF Entries
<1>10. emissions' \in Seq(Emission) /\ Depth' = Depth  BY DestroyedCalls
<1>11. \A i \in 1..Depth :
         /\ emissions'[i].emitter = emissions[i].emitter /\ emissions'[i].flag = emissions[i].flag
         /\ emissions'[i].isFirstToEmit = emissions[i].isFirstToEmit
         /\ emissions'[i].calling = emissions[i].calling /\ emissions'[i].rest = emissions[i].rest
         /\ emissions'[i].isDestroyed <=>
               emissions[i].isDestroyed \/ (isEmitting[o] /\ i = pIsDestroyed[o])
         /\ emissions[i] \in Emission
  <2> HIDE DEF SignalsInvariant
  <2> QED  BY DestroyedCalls
<1>12. \A e \in Objects : /\ isEmitting'[e] <=> e # o /\ isEmitting[e]
                          /\ pIsDestroyed'[e] = IF e = o THEN 0 ELSE pIsDestroyed[e]
  BY <1>1 DEF TypeOK
<1>0. alive' = alive \ {o} /\ made' = made /\ ~hasToCleanup'[o] /\ connections'[o] = {}
  BY <1>1, <1>4
<1>13. Flags'
  <2> SUFFICES ASSUME NEW e \in Objects
               PROVE  /\ ~hasToCleanup'[e] => \A c \in connections'[e] : c.connected
                      /\ hasToCleanup'[e] => isEmitting'[e]
                      /\ isEmitting'[e] <=> pIsDestroyed'[e] # 0
                      /\ isEmitting'[e] =>
                            /\ e \in alive'
                            /\ pIsDestroyed'[e] \in 1..Depth'
                            /\ emissions'[pIsDestroyed'[e]].emitter = e
    BY DEF Flags
  <2>1. CASE e = o  BY <1>0, <1>12, <2>1
  <2>2. CASE e # o
    <3>1. hasToCleanup'[e] <=> hasToCleanup[e] \/ (isEmitting[e] /\ left[e] # connections[e])
      BY <1>1, <2>2
    <3>2. ~hasToCleanup'[e] => connections'[e] \subseteq connections[e]
      BY <1>2, <1>4, <2>2, <3>1
    <3> QED  BY <1>0, <1>10, <1>11, <1>12, <2>2, <3>1, <3>2 DEF Flags
  <2> QED  BY <2>1, <2>2
<1>14. Calls'
  <2> SUFFICES ASSUME NEW i \in 1..Depth
               PROVE  /\ emissions'[i].flag \in 1..i
                      /\ emissions'[emissions'[i].flag].emitter = emissions'[i].emitter
                      /\ emissions'[i].isFirstToEmit <=> emissions'[i].flag = i
                      /\ emissions'[i].emitter \in alive' =>
                             /\ isEmitting'[emissions'[i].emitter]
                             /\ pIsDestroyed'[emissions'[i].emitter] = emissions'[i].flag
                      /\ emissions'[emissions'[i].flag].isDestroyed <=> emissions'[i].emitter \notin alive'
                      /\ emissions'[i].calling
                      /\ emissions'[i].rest >= 1 /\ emissions'[i].rest <= made'
    BY <1>10 DEF Calls
  <2> DEFINE f == emissions[i].flag
             e == emissions[i].emitter
  <2>1. /\ f \in 1..i /\ f \in 1..Depth /\ e \in Objects
        /\ emissions[f].emitter = e
        /\ emissions[i].isFirstToEmit <=> f = i
        /\ e \in alive => isEmitting[e] /\ pIsDestroyed[e] = f
        /\ emissions[f].isDestroyed <=> e \notin alive
        /\ emissions[i].calling /\ emissions[i].rest >= 1 /\ emissions[i].rest <= made
    BY <1>1, <1>11, AllCalling, Stack DEF Calls, Emission
  <2>2. /\ emissions'[i].emitter = e /\ emissions'[i].flag = f
        /\ emissions'[i].isFirstToEmit = emissions[i].isFirstToEmit
        /\ emissions'[i].calling = emissions[i].calling /\ emissions'[i].rest = emissions[i].rest
        /\ emissions'[f].emitter = e
        /\ emissions'[f].isDestroyed <=>
              emissions[f].isDestroyed \/ (isEmitting[o] /\ f = pIsDestroyed[o])
    BY <1>11, <2>1
  <2> HIDE DEF e, f
  <2>3. CASE e = o
    <3>1. emissions'[f].isDestroyed /\ e \notin alive'  BY <1>0, <1>1, <2>1, <2>2, <2>3
    <3> QED  BY <1>0, <2>1, <2>2, <3>1
  <2>4. CASE e # o
    <3>1. isEmitting[o] => emissions[pIsDestroyed[o]].emitter = o  BY DEF Flags
    <3>2. ~(isEmitting[o] /\ f = pIsDestroyed[o])  BY <2>1, <2>4, <3>1
    <3> QED  BY <1>0, <1>12, <2>1, <2>2, <2>4, <3>2
  <2> QED  BY <2>3, <2>4
<1>15. TypeOK'
  <2>1. connections' \in [Objects -> SUBSET ConnectionData]
    <3>1. \A e \in Objects : left[e] \in SUBSET ConnectionData  BY <1>2 DEF Remains
    <3> QED  BY <1>1, <1>3, <3>1
  <2>2. emitters' \in [Objects -> [Objects -> Nat]]
    <3>1. /\ emitters' = [r \in Objects |-> emitters'[r]]
          /\ \A r \in Objects : emitters'[r] = [e \in Objects |-> emitters'[r][e]]
      BY <1>1 DEF RemoveEmitters, TypeOK
    <3>2. \A r \in Objects, e \in Objects : emitters'[r][e] \in Nat  BY <1>7 DEF TypeOK
    <3> QED  BY <3>1, <3>2
  <2>3. /\ alive' \subseteq Objects /\ made' \in 0..MaxConnections
        /\ isEmitting' \in [Objects -> BOOLEAN] /\ hasToCleanup' \in [Objects -> BOOLEAN]
        /\ pIsDestroyed' \in [Objects -> 0..MaxDepth]
    BY <1>1, BoundsAssumption DEF TypeOK
  <2> QED  BY <1>1, <1>10, <2>1, <2>2, <2>3 DEF TypeOK
<1> QED  BY <1>8, <1>9, <1>13, <1>14, <1>15

LEMMA EmitKeeps ==
    ASSUME SignalsInvariant, NEW o \in Objects, NEW s \in Signals, Emit(o, s)
    PROVE  SignalsInvariant'
<1> USE DEF SignalsInvariant
<1> DEFINE n == Depth + 1
           flag == IF isEmitting[o] THEN pIsDestroyed[o] ELSE n
           new == NewEmission(o, s, flag)
<1>1. /\ UserRuns /\ o \in alive /\ Depth < MaxDepth
      /\ emissions' = Append(emissions, new)
      /\ pIsDestroyed' = [pIsDestroyed EXCEPT ![o] = flag]
      /\ isEmitting' = [isEmitting EXCEPT ![o] = TRUE]
      /\ UNCHANGED <<alive, connections, emitters, hasToCleanup, made, touchesDestroyed>>
  BY DEF Emit
<1>2. /\ Depth \in Nat /\ flag \in 1..n /\ n \in 1..MaxDepth /\ flag \in 1..MaxDepth
      /\ ~isEmitting[o] => flag = n
      /\ isEmitting[o] => /\ flag = pIsDestroyed[o] /\ flag \in 1..Depth
                          /\ emissions[flag].emitter = o /\ emissions[flag].flag = flag
                          /\ ~emissions[flag].isDestroyed
  <2>1. Depth \in Nat /\ MaxDepth \in Nat  BY Stack, BoundsAssumption
  <2>2. CASE isEmitting[o]
    <3>1. flag = pIsDestroyed[o] /\ flag \in 1..Depth /\ emissions[flag].emitter = o
      BY <2>2 DEF Flags
    <3>2. emissions[flag].flag = flag /\ ~emissions[flag].isDestroyed
      <4> HIDE DEF flag
      <4> QED  BY <1>1, <3>1 DEF Calls
    <3> QED  BY <1>1, <2>1, <2>2, <3>1, <3>2
  <2>3. CASE ~isEmitting[o]  BY <1>1, <2>1, <2>3
  <2> QED  BY <2>2, <2>3
<1>3. /\ new \in Emission /\ new.emitter = o /\ new.flag = flag /\ new.rest = made
      /\ ~new.isDestroyed /\ ~new.calling /\ (new.isFirstToEmit <=> ~isEmitting[o])
  BY <1>2 DEF NewEmission, Emission, TypeOK
<1> HIDE DEF new, flag
<1>4. /\ emissions' \in Seq(Emission) /\ Depth' = n
      /\ \A i \in 1..Depth : emissions'[i] = emissions[i]
      /\ emissions'[n] = new
  <2>1. emissions \in Seq(Emission)  BY DEF TypeOK
  <2> QED  BY <1>1, <1>3, <2>1, Appended DEF Depth
<1>5. alive' = alive /\ made' = made /\ connections' = connections /\ hasToCleanup' = hasToCleanup
  BY <1>1
<1>6. \A e \in Objects : /\ isEmitting'[e] <=> isEmitting[e] \/ e = o
                         /\ pIsDestroyed'[e] = IF e = o THEN flag ELSE pIsDestroyed[e]
  BY <1>1 DEF TypeOK
<1>7. TypeOK'
  <2>1. pIsDestroyed' \in [Objects -> 0..MaxDepth]  BY <1>1, <1>2 DEF TypeOK
  <2> QED  BY <1>1, <1>4, <2>1 DEF TypeOK
<1>8. Entries'  BY <1>1 DEF Entries
<1>9. Counted'  BY <1>1 DEF Counted, Count, Connected
<1>10. Flags'
  <2> SUFFICES ASSUME NEW e \in Objects
               PROVE  /\ ~hasToCleanup'[e] => \A c \in connections'[e] : c.connected
                      /\ hasToCleanup'[e] => isEmitting'[e]
                      /\ isEmitting'[e] <=> pIsDestroyed'[e] # 0
                      /\ isEmitting'[e] =>
                            /\ e \in alive'
                            /\ pIsDestroyed'[e] \in 1..Depth'
                            /\ emissions'[pIsDestroyed'[e]].emitter = e
    BY DEF Flags
  <2>1. CASE e = o
    <3>1. emissions'[flag].emitter = o  BY <1>2, <1>3, <1>4
    <3>2. o \in alive  BY <1>1
    <3>3. flag \in 1..n /\ flag # 0  BY <1>2
    <3>4. ~hasToCleanup[o] => \A c \in connections[o] : c.connected  BY DEF Flags
    <3> QED  BY <1>4, <1>5, <1>6, <2>1, <3>1, <3>2, <3>3, <3>4
  <2>2. CASE e # o  BY <1>2, <1>4, <1>5, <1>6, <2>2 DEF Flags
  <2> QED  BY <2>1, <2>2
<1>11. Calls'
  <2> SUFFICES ASSUME NEW i \in 1..n
               PROVE  /\ emissions'[i].flag \in 1..i
                      /\ emissions'[emissions'[i].flag].emitter = emissions'[i].emitter
                      /\ emissions'[i].isFirstToEmit <=> emissions'[i].flag = i
                      /\ emissions'[i].emitter \in alive =>
                             /\ isEmitting'[emissions'[i].emitter]
                             /\ pIsDestroyed'[emissions'[i].emitter] = emissions'[i].flag
                      /\ emissions'[emissions'[i].flag].isDestroyed <=> emissions'[i].emitter \notin alive
                      /\ i < n => emissions'[i].calling
                      /\ ~emissions'[i].calling => emissions'[i].emitter \in alive
                      /\ emissions'[i].calling => emissions'[i].rest >= 1
                      /\ emissions'[i].rest <= made
    BY <1>4, <1>5 DEF Calls
  <2>1. CASE i \in 1..Depth
    <3> DEFINE f == emissions[i].flag
               e == emissions[i].emitter
    <3>1. f \in 1..i /\ f \in 1..Depth /\ e \in Objects  BY <2>1, Stack DEF Calls, Emission
    <3>2. emissions[i].calling  BY <1>1, <2>1, AllCalling
    <3>3. emissions'[i] = emissions[i] /\ emissions'[f] = emissions[f]  BY <1>4, <2>1, <3>1
    <3>4. /\ emissions[f].emitter = e
          /\ emissions[i].isFirstToEmit <=> f = i
          /\ e \in alive => isEmitting[e] /\ pIsDestroyed[e] = f
          /\ emissions[f].isDestroyed <=> e \notin alive
          /\ emissions[i].rest >= 1 /\ emissions[i].rest <= made
      BY <2>1, <3>2 DEF Calls
    <3>5. e \in alive => isEmitting'[e] /\ pIsDestroyed'[e] = f
      BY <1>2, <1>6, <3>1, <3>4
    <3> HIDE DEF e, f
    <3>6. emissions'[i].flag = f /\ emissions'[i].emitter = e  BY <3>3 DEF e, f
    <3> QED  BY <3>1, <3>2, <3>3, <3>4, <3>5, <3>6
  <2>2. CASE i = n
    <3>1. emissions'[i] = new  BY <1>4, <2>2
    <3>2. /\ emissions'[flag].emitter = o
          /\ ~emissions'[flag].isDestroyed
      BY <1>2, <1>3, <1>4
    <3>3. made <= made  BY DEF TypeOK
    <3>4. o \in alive  BY <1>1
    <3>5. flag \in 1..i /\ (~isEmitting[o] <=> flag = i)  BY <1>2, <2>2
    <3>6. isEmitting'[o] /\ pIsDestroyed'[o] = flag  BY <1>6
    <3> QED  BY <1>3, <2>2, <3>1, <3>2, <3>3, <3>4, <3>5, <3>6
  <2> QED  BY <1>2, <2>1, <2>2
<1> QED  BY <1>7, <1>8, <1>9, <1>10, <1>11

\* A step that only changes rest and calling of the innermost call.
LEMMA TopKeeps ==
    ASSUME SignalsInvariant, emissions # <<>>, NEW x \in Emission,
           emissions' = [emissions EXCEPT ![Depth] = x],
           x.emitter = emissions[Depth].emitter, x.flag = emissions[Depth].flag,
           x.isDestroyed = emissions[Depth].isDestroyed,
           x.isFirstToEmit = emissions[Depth].isFirstToEmit,
           UNCHANGED <<objectVars, made>>, touchesDestroyed' \in BOOLEAN,
           x.rest <= made, x.calling => x.rest >= 1, ~x.calling => x.emitter \in alive
    PROVE  SignalsInvariant'
<1> USE DEF SignalsInvariant
<1> DEFINE n == Depth
<1>1. /\ n \in Nat /\ n \in 1..n /\ emissions \in Seq(Emission) /\ emissions \in [1..n -> Emission]
  BY Stack DEF TypeOK
<1>2. emissions' \in Seq(Emission) /\ Depth' = n
  <2>1. n = Len(emissions)  BY DEF Depth
  <2> HIDE DEF n
  <2>0. n \in 1..Len(emissions) /\ emissions \in Seq(Emission)  BY <1>1, <2>1
  <2>2. emissions' \in Seq(Emission)  BY <2>0, Changed DEF n
  <2>3. Len(emissions') = Len(emissions)  BY <2>0, Changed DEF n
  <2> QED  BY <2>2, <2>3 DEF Depth, n
<1>3. /\ \A i \in 1..n : /\ emissions'[i].emitter = emissions[i].emitter
                         /\ emissions'[i].flag = emissions[i].flag
                         /\ emissions'[i].isDestroyed = emissions[i].isDestroyed
                         /\ emissions'[i].isFirstToEmit = emissions[i].isFirstToEmit
                         /\ i < n => emissions'[i] = emissions[i]
      /\ emissions'[n] = x
  <2>1. \A i \in 1..n : emissions'[i] = IF i = n THEN x ELSE emissions[i]  BY <1>1
  <2> QED  BY <1>1, <2>1
<1>4. TypeOK'  BY <1>2 DEF TypeOK, objectVars
<1>5. Entries' /\ Counted'  BY DEF Entries, Counted, Count, Connected, objectVars
<1>6. Flags'  BY <1>2, <1>3 DEF Flags, objectVars
<1>7. Calls'
  <2>1. alive' = alive /\ made' = made /\ isEmitting' = isEmitting /\ pIsDestroyed' = pIsDestroyed
    BY DEF objectVars
  <2> SUFFICES ASSUME NEW i \in 1..n
               PROVE  /\ emissions'[i].flag \in 1..i
                      /\ emissions'[emissions'[i].flag].emitter = emissions'[i].emitter
                      /\ emissions'[i].isFirstToEmit <=> emissions'[i].flag = i
                      /\ emissions'[i].emitter \in alive' =>
                             /\ isEmitting'[emissions'[i].emitter]
                             /\ pIsDestroyed'[emissions'[i].emitter] = emissions'[i].flag
                      /\ emissions'[emissions'[i].flag].isDestroyed
                           <=> emissions'[i].emitter \notin alive'
                      /\ i < n => emissions'[i].calling
                      /\ ~emissions'[i].calling => emissions'[i].emitter \in alive'
                      /\ emissions'[i].calling => emissions'[i].rest >= 1
                      /\ emissions'[i].rest <= made'
    <3> HIDE DEF n
    <3> QED  BY <1>2 DEF Calls
  <2> DEFINE f == emissions[i].flag
             e == emissions[i].emitter
  <2>2. f \in 1..i /\ f \in 1..n  BY <1>1 DEF Calls
  <2>3. /\ emissions[f].emitter = e
        /\ emissions[i].isFirstToEmit <=> f = i
        /\ e \in alive => isEmitting[e] /\ pIsDestroyed[e] = f
        /\ emissions[f].isDestroyed <=> e \notin alive
        /\ i < n => emissions[i].calling
        /\ ~emissions[i].calling => e \in alive
        /\ emissions[i].calling => emissions[i].rest >= 1
        /\ emissions[i].rest <= made
    BY DEF Calls
  <2>4. /\ emissions'[i].flag = f /\ emissions'[i].emitter = e /\ emissions'[f].emitter = emissions[f].emitter
        /\ emissions'[f].isDestroyed = emissions[f].isDestroyed
        /\ emissions'[i].isFirstToEmit = emissions[i].isFirstToEmit
    BY <1>3, <2>2
  <2>5. /\ i < n => emissions'[i].calling
        /\ ~emissions'[i].calling => e \in alive
        /\ emissions'[i].calling => emissions'[i].rest >= 1
        /\ emissions'[i].rest <= made
    <3>1. CASE i = n  BY <1>3, <3>1
    <3>2. CASE i < n  BY <1>3, <2>3, <3>2
    <3> QED  BY <1>1, <3>1, <3>2
  <2> HIDE DEF f, e, n
  <2> QED  BY <2>1, <2>2, <2>3, <2>4, <2>5
<1> QED  BY <1>4, <1>5, <1>6, <1>7

LEMMA CallSlotKeeps ==
    ASSUME SignalsInvariant, CallSlot
    PROVE  SignalsInvariant'
<1> USE DEF SignalsInvariant
<1> DEFINE n == Depth
<1>1. emissions # <<>> /\ ~Top.calling  BY DEF CallSlot, UserRuns
<1>2. /\ n \in 1..n /\ Top = emissions[n] /\ emissions \in [1..n -> Emission]
      /\ emissions[n] \in Emission
  BY <1>1, Stack
<1>3. PICK c \in Due(Top, Top.rest) :
        /\ emissions' = [emissions EXCEPT ![Depth].rest = c.id, ![Depth].calling = TRUE]
        /\ touchesDestroyed' = (touchesDestroyed \/ c.receiver \notin alive \cup {NoReceiver})
  BY DEF CallSlot
<1>4. UNCHANGED <<objectVars, made>>  BY DEF CallSlot
<1>5. touchesDestroyed' \in BOOLEAN  BY <1>3 DEF TypeOK
<1>6. c.id \in 1..MaxConnections /\ c.id <= Top.rest
  <2>1. Top.emitter \in Objects  BY <1>2 DEF Emission
  <2>2. c \in connections[Top.emitter] /\ c.id <= Top.rest  BY <1>3 DEF Due, Connected
  <2>3. c \in ConnectionData  BY <2>1, <2>2, ListOf
  <2> QED  BY <2>2, <2>3 DEF ConnectionData
<1>7. /\ Top.rest <= made /\ Top.rest \in Int /\ made \in Int
  BY <1>2 DEF Calls, Emission, TypeOK
<1>8. c.id \in 0..MaxConnections /\ c.id <= made /\ c.id >= 1
  BY <1>6, <1>7, BoundsAssumption
<1> DEFINE x == [emissions[n] EXCEPT !.rest = c.id, !.calling = TRUE]
<1>9. /\ x \in Emission /\ x.rest = c.id /\ x.calling /\ x.emitter = emissions[n].emitter
      /\ x.flag = emissions[n].flag /\ x.isDestroyed = emissions[n].isDestroyed
      /\ x.isFirstToEmit = emissions[n].isFirstToEmit
  BY <1>2, <1>8 DEF Emission
<1>10. emissions' = [emissions EXCEPT ![Depth] = x]  BY <1>2, <1>3
<1> HIDE DEF x, SignalsInvariant
<1> QED  BY <1>1, <1>4, <1>5, <1>8, <1>9, <1>10, TopKeeps

\* A call returns that no flag points to.
LEMMA PopKeeps ==
    ASSUME SignalsInvariant, emissions # <<>>, emissions' = Front(emissions),
           \A o \in Objects : isEmitting[o] => pIsDestroyed[o] # Depth,
           UNCHANGED <<objectVars, made, touchesDestroyed>>
    PROVE  SignalsInvariant'
<1> USE DEF SignalsInvariant
<1> DEFINE n == Depth
<1>1. n \in Nat /\ n \in 1..n  BY Stack
<1>2. /\ emissions' \in Seq(Emission) /\ Depth' = n - 1
      /\ \A i \in 1..(n - 1) : emissions'[i] = emissions[i]
  BY TopOfStack DEF TypeOK, Depth
<1>3. TypeOK'  BY <1>2 DEF TypeOK, objectVars
<1>4. Entries' /\ Counted'  BY DEF Entries, Counted, Count, Connected, objectVars
<1>5. Flags'
  <2>1. \A o \in Objects : isEmitting[o] => pIsDestroyed[o] \in 1..(n - 1)
    BY <1>1 DEF Flags
  <2> QED  BY <1>2, <2>1 DEF Flags, objectVars
<1>6. Calls'
  <2>1. alive' = alive /\ made' = made /\ isEmitting' = isEmitting /\ pIsDestroyed' = pIsDestroyed
    BY DEF objectVars
  <2> SUFFICES ASSUME NEW i \in 1..(n - 1)
               PROVE  /\ emissions'[i].flag \in 1..i
                      /\ emissions'[emissions'[i].flag].emitter = emissions'[i].emitter
                      /\ emissions'[i].isFirstToEmit <=> emissions'[i].flag = i
                      /\ emissions'[i].emitter \in alive' =>
                             /\ isEmitting'[emissions'[i].emitter]
                             /\ pIsDestroyed'[emissions'[i].emitter] = emissions'[i].flag
                      /\ emissions'[emissions'[i].flag].isDestroyed
                           <=> emissions'[i].emitter \notin alive'
                      /\ emissions'[i].calling
                      /\ emissions'[i].rest >= 1
                      /\ emissions'[i].rest <= made'
    <3> HIDE DEF n
    <3> QED  BY <1>2 DEF Calls
  <2>2. i \in 1..n /\ i < n /\ emissions[i].calling  BY <1>1 DEF Calls
  <2>3. emissions[i].flag \in 1..(n - 1)  BY <1>1, <2>2 DEF Calls
  <2>4. emissions'[i] = emissions[i] /\ emissions'[emissions[i].flag] = emissions[emissions[i].flag]
    BY <1>2, <2>3
  <2> HIDE DEF n
  <2> QED  BY <2>1, <2>2, <2>4 DEF Calls, n
<1> QED  BY <1>3, <1>4, <1>5, <1>6

LEMMA SlotReturnsKeeps ==
    ASSUME SignalsInvariant, SlotReturns
    PROVE  SignalsInvariant'
<1> USE DEF SignalsInvariant
<1> DEFINE n == Depth
<1>1. /\ emissions # <<>> /\ Top.calling /\ UNCHANGED <<objectVars, made, touchesDestroyed>>
  BY DEF SlotReturns, UserRuns
<1>2. /\ n \in 1..n /\ Top = emissions[n] /\ emissions \in [1..n -> Emission]
      /\ emissions[n] \in Emission
  BY <1>1, Stack
<1>3. CASE emissions[Top.flag].isDestroyed
  <2>1. emissions' = Front(emissions)  BY <1>3 DEF SlotReturns
  <2>2. emissions[n].emitter \notin alive  BY <1>2, <1>3 DEF Calls
  <2>3. \A o \in Objects : isEmitting[o] => pIsDestroyed[o] # n
    BY <2>2 DEF Flags
  <2> HIDE DEF SignalsInvariant
  <2> QED  BY <1>1, <2>1, <2>3, PopKeeps
<1>4. CASE ~emissions[Top.flag].isDestroyed
  <2> DEFINE x == [emissions[n] EXCEPT !.rest = @ - 1, !.calling = FALSE]
  <2>1. emissions[n].emitter \in alive  BY <1>2, <1>4 DEF Calls
  <2>2. emissions[n].rest >= 1 /\ emissions[n].rest <= made  BY <1>1, <1>2 DEF Calls
  <2>3. emissions[n].rest \in 0..MaxConnections /\ made \in Int
    BY <1>2 DEF Emission, TypeOK
  <2>4. emissions[n].rest - 1 \in 0..MaxConnections /\ emissions[n].rest - 1 <= made
    BY <2>2, <2>3, BoundsAssumption
  <2>5. /\ x \in Emission /\ x.rest = emissions[n].rest - 1 /\ ~x.calling
        /\ x.emitter = emissions[n].emitter
        /\ x.flag = emissions[n].flag /\ x.isDestroyed = emissions[n].isDestroyed
        /\ x.isFirstToEmit = emissions[n].isFirstToEmit
    BY <1>2, <2>4 DEF Emission
  <2>6. emissions' = [emissions EXCEPT ![Depth] = x]
    <3>1. emissions' = [emissions EXCEPT ![Depth].rest = @ - 1, ![Depth].calling = FALSE]
      BY <1>4 DEF SlotReturns
    <3> QED  BY <1>2, <3>1
  <2>7. touchesDestroyed' \in BOOLEAN /\ UNCHANGED <<objectVars, made>>  BY <1>1 DEF TypeOK
  <2> HIDE DEF x, SignalsInvariant
  <2> QED  BY <1>1, <2>1, <2>4, <2>5, <2>6, <2>7, TopKeeps
<1> QED  BY <1>3, <1>4

LEMMA EmissionEndsKeeps ==
    ASSUME SignalsInvariant, EmissionEnds
    PROVE  SignalsInvariant'
<1> USE DEF SignalsInvariant
<1> DEFINE n == Depth
           o == Top.emitter
<1>1. /\ emissions # <<>> /\ ~Top.calling /\ emissions' = Front(emissions)
      /\ UNCHANGED <<alive, emitters, made, touchesDestroyed>>
  BY DEF EmissionEnds, UserRuns
<1>2. /\ n \in Nat /\ n \in 1..n /\ Top = emissions[n] /\ emissions \in [1..n -> Emission]
      /\ emissions[n] \in Emission
  BY <1>1, Stack
<1>3. o \in Objects  BY <1>2 DEF Emission
<1>4. o \in alive /\ isEmitting[o] /\ pIsDestroyed[o] = Top.flag
  BY <1>1, <1>2 DEF Calls
<1>5. Top.flag \in 1..n /\ (Top.isFirstToEmit <=> Top.flag = n)  BY <1>2 DEF Calls
<1>6. CASE ~Top.isFirstToEmit
  <2>1. \A e \in Objects : isEmitting[e] => pIsDestroyed[e] # n
    <3> SUFFICES ASSUME NEW e \in Objects, isEmitting[e], pIsDestroyed[e] = n
                 PROVE  FALSE
      OBVIOUS
    <3>1. emissions[n].emitter = e  BY DEF Flags
    <3>2. pIsDestroyed[o] = n  BY <1>2, <3>1
    <3> QED  BY <1>4, <1>5, <1>6, <3>2
  <2>2. UNCHANGED <<objectVars, made, touchesDestroyed>>
    BY <1>6 DEF EmissionEnds, objectVars
  <2> HIDE DEF SignalsInvariant
  <2> QED  BY <1>1, <2>1, <2>2, PopKeeps
<1>7. CASE Top.isFirstToEmit
  <2>1. /\ hasToCleanup' = [hasToCleanup EXCEPT ![o] = FALSE]
        /\ connections' = IF hasToCleanup[o] THEN [connections EXCEPT ![o] = Connected(connections[o])]
                          ELSE connections
        /\ isEmitting' = [isEmitting EXCEPT ![o] = FALSE]
        /\ pIsDestroyed' = [pIsDestroyed EXCEPT ![o] = 0]
    BY <1>7 DEF EmissionEnds, Cleanup
  <2>2. /\ emissions' \in Seq(Emission) /\ Depth' = n - 1
        /\ \A i \in 1..(n - 1) : emissions'[i] = emissions[i]
    BY <1>1, TopOfStack DEF TypeOK, Depth
  <2> HIDE DEF o
  <2>3. \A e \in Objects :
          /\ isEmitting'[e] <=> e # o /\ isEmitting[e]
          /\ pIsDestroyed'[e] = IF e = o THEN 0 ELSE pIsDestroyed[e]
          /\ hasToCleanup'[e] <=> e # o /\ hasToCleanup[e]
          /\ e # o => connections'[e] = connections[e]
          /\ Connected(connections'[e]) = Connected(connections[e])
          /\ connections'[e] \in SUBSET connections[e]
    <3> SUFFICES ASSUME NEW e \in Objects
                 PROVE  /\ isEmitting'[e] <=> e # o /\ isEmitting[e]
                        /\ pIsDestroyed'[e] = IF e = o THEN 0 ELSE pIsDestroyed[e]
                        /\ hasToCleanup'[e] <=> e # o /\ hasToCleanup[e]
                        /\ e # o => connections'[e] = connections[e]
                        /\ Connected(connections'[e]) = Connected(connections[e])
                        /\ connections'[e] \in SUBSET connections[e]
      OBVIOUS
    <3>1. /\ isEmitting'[e] <=> e # o /\ isEmitting[e]
          /\ pIsDestroyed'[e] = IF e = o THEN 0 ELSE pIsDestroyed[e]
          /\ hasToCleanup'[e] <=> e # o /\ hasToCleanup[e]
      BY <2>1 DEF TypeOK
    <3>2. connections'[e] = IF hasToCleanup[o] /\ e = o THEN Connected(connections[e])
                            ELSE connections[e]
      BY <2>1 DEF TypeOK
    <3> QED  BY <3>1, <3>2 DEF Connected
  <2>4. \A c \in connections'[o] : c.connected
    <3>1. CASE hasToCleanup[o]
      <4>1. connections'[o] = Connected(connections[o])  BY <1>3, <2>1, <3>1 DEF TypeOK
      <4> QED  BY <4>1 DEF Connected
    <3>2. CASE ~hasToCleanup[o]  BY <1>3, <2>1, <3>2 DEF Flags
    <3> QED  BY <3>1, <3>2
  <2>5. TypeOK'
    <3>1. connections' \in [Objects -> SUBSET ConnectionData]
      <4>1. connections' = [e \in Objects |-> connections'[e]]  BY <2>1 DEF TypeOK
      <4>2. \A e \in Objects : connections'[e] \in SUBSET ConnectionData  BY <2>3 DEF TypeOK
      <4> QED  BY <4>1, <4>2
    <3>2. isEmitting' \in [Objects -> BOOLEAN] /\ hasToCleanup' \in [Objects -> BOOLEAN]
      BY <2>1 DEF TypeOK
    <3>3. pIsDestroyed' \in [Objects -> 0..MaxDepth]
      <4>1. 0 \in 0..MaxDepth  BY BoundsAssumption
      <4> QED  BY <2>1, <4>1 DEF TypeOK
    <3>4. /\ alive' \subseteq Objects /\ emitters' \in [Objects -> [Objects -> Nat]]
          /\ made' \in 0..MaxConnections /\ touchesDestroyed' \in BOOLEAN
      BY <1>1 DEF TypeOK
    <3> QED  BY <2>2, <3>1, <3>2, <3>3, <3>4 DEF TypeOK
  <2>6. Entries'
    <3>1. \A e \in Objects : Remains(connections'[e], connections[e])
      BY <2>3, ListRemains DEF Remains, DistinctIds
    <3> QED  BY <1>1, <3>1, EntriesRemain
  <2>7. Counted'  BY <1>1, <2>3 DEF Counted
  <2>8. Flags'
    <3>1. \A e \in Objects : isEmitting[e] /\ e # o => pIsDestroyed[e] \in 1..(n - 1)
      <4> SUFFICES ASSUME NEW e \in Objects, isEmitting[e], e # o
                   PROVE  pIsDestroyed[e] \in 1..(n - 1)
        OBVIOUS
      <4>1. pIsDestroyed[e] \in 1..n /\ emissions[pIsDestroyed[e]].emitter = e  BY DEF Flags
      <4>2. pIsDestroyed[e] # n  BY <1>2, <4>1 DEF o
      <4> QED  BY <1>2, <4>1, <4>2
    <3> SUFFICES ASSUME NEW e \in Objects
                 PROVE  /\ ~hasToCleanup'[e] => \A c \in connections'[e] : c.connected
                        /\ hasToCleanup'[e] => isEmitting'[e]
                        /\ isEmitting'[e] <=> pIsDestroyed'[e] # 0
                        /\ isEmitting'[e] =>
                              /\ e \in alive'
                              /\ pIsDestroyed'[e] \in 1..Depth'
                              /\ emissions'[pIsDestroyed'[e]].emitter = e
      BY DEF Flags
    <3>2. CASE e = o  BY <2>3, <2>4, <3>2
    <3>3. CASE e # o
      <4>1. alive' = alive  BY <1>1
      <4>2. connections'[e] = connections[e] /\ pIsDestroyed'[e] = pIsDestroyed[e]
        BY <2>3, <3>3
      <4>3. (hasToCleanup'[e] <=> hasToCleanup[e]) /\ (isEmitting'[e] <=> isEmitting[e])
        BY <2>3, <3>3
      <4>4. isEmitting[e] => /\ pIsDestroyed[e] \in 1..(n - 1)
                             /\ emissions'[pIsDestroyed[e]] = emissions[pIsDestroyed[e]]
        BY <2>2, <3>1, <3>3
      <4> HIDE DEF n
      <4> QED  BY <2>2, <4>1, <4>2, <4>3, <4>4 DEF Flags
    <3> QED  BY <3>2, <3>3
  <2>9. Calls'
    <3> SUFFICES ASSUME NEW i \in 1..(n - 1)
                 PROVE  /\ emissions'[i].flag \in 1..i
                        /\ emissions'[emissions'[i].flag].emitter = emissions'[i].emitter
                        /\ emissions'[i].isFirstToEmit <=> emissions'[i].flag = i
                        /\ emissions'[i].emitter \in alive' =>
                               /\ isEmitting'[emissions'[i].emitter]
                               /\ pIsDestroyed'[emissions'[i].emitter] = emissions'[i].flag
                        /\ emissions'[emissions'[i].flag].isDestroyed
                             <=> emissions'[i].emitter \notin alive'
                        /\ emissions'[i].calling
                        /\ emissions'[i].rest >= 1
                        /\ emissions'[i].rest <= made'
      <4> HIDE DEF n
      <4> QED  BY <2>2 DEF Calls
    <3> DEFINE f == emissions[i].flag
               e == emissions[i].emitter
    <3>1. alive' = alive /\ made' = made  BY <1>1
    <3>2. i \in 1..n /\ i < n /\ emissions[i].calling  BY <1>2 DEF Calls
    <3>3. f \in 1..i /\ f \in 1..(n - 1) /\ f # n  BY <1>2, <3>2 DEF Calls
    <3>4. emissions'[i] = emissions[i] /\ emissions'[f] = emissions[f]  BY <2>2, <3>3
    <3>5. /\ emissions[f].emitter = e
          /\ emissions[i].isFirstToEmit <=> f = i
          /\ e \in alive => isEmitting[e] /\ pIsDestroyed[e] = f
          /\ emissions[f].isDestroyed <=> e \notin alive
          /\ emissions[i].rest >= 1 /\ emissions[i].rest <= made
      BY <3>2 DEF Calls
    <3>6. e \in Objects  BY <1>2, <3>2 DEF Emission
    <3>7. e \in alive => isEmitting'[e] /\ pIsDestroyed'[e] = f
      <4>1. pIsDestroyed[o] = n  BY <1>4, <1>5, <1>7 DEF o
      <4> QED  BY <2>3, <3>3, <3>5, <3>6, <4>1
    <3>8. emissions'[i].flag = f /\ emissions'[i].emitter = e  BY <3>4
    <3> HIDE DEF e, f, n
    <3> QED  BY <3>1, <3>2, <3>3, <3>4, <3>5, <3>7, <3>8
  <2> QED  BY <2>5, <2>6, <2>7, <2>8, <2>9
<1> QED  BY <1>6, <1>7

LEMMA NextKeeps == SignalsInvariant /\ [Next]_vars => SignalsInvariant'
<1> SUFFICES ASSUME SignalsInvariant, [Next]_vars PROVE SignalsInvariant'  OBVIOUS
<1>1. CASE \E o \in Objects, s \in Signals, r \in Receivers : Connect(o, s, r)
  BY <1>1, ConnectKeeps
<1>2. CASE \E o \in Objects :
             \E ss \in {Signals} \cup {{s} : s \in Signals},
                rs \in {Receivers} \cup {{r} : r \in Objects} : Disconnect(o, ss, rs)
  BY <1>2, DisconnectKeeps
<1>3. CASE \E o \in Objects : Destroy(o)  BY <1>3, DestroyKeeps
<1>4. CASE \E o \in Objects, s \in Signals : Emit(o, s)  BY <1>4, EmitKeeps
<1>5. CASE CallSlot  BY <1>5, CallSlotKeeps
<1>6. CASE SlotReturns  BY <1>6, SlotReturnsKeeps
<1>7. CASE EmissionEnds  BY <1>7, EmissionEndsKeeps
<1>8. CASE UNCHANGED vars
  BY <1>8 DEF vars, objectVars, SignalsInvariant, TypeOK, Entries, Counted, Count, Connected,
              Flags, Calls, Depth
<1> QED  BY <1>1, <1>2, <1>3, <1>4, <1>5, <1>6, <1>7, <1>8 DEF Next

\* Lists, counts and flags agree in every state (Object.h: connect, disconnect,
\* emitSignal; Object.cpp: ~Object).
THEOREM SignalsAreInvariant == Spec => []SignalsInvariant
BY InitHolds, NextKeeps, PTL DEF Spec

\* Both ends of every connection agree, whatever slots have done, and nothing is left to
\* clean up once no one emits.
THEOREM ListsAreExact == Spec => []ListsExact
<1>1. SignalsInvariant => ListsExact
  <2> SUFFICES ASSUME SignalsInvariant PROVE ListsExact  OBVIOUS
  <2> USE DEF SignalsInvariant
  <2>1. EmittersExact
    <3> SUFFICES ASSUME NEW r \in Objects, NEW e \in Objects, emitters[r][e] > 0
                 PROVE  {r, e} \subseteq alive
      BY DEF EmittersExact, Counted
    <3> DEFINE C == Connected(connections[e])
    <3>1. IsFiniteSet(C) /\ Count(C, r) # 0  BY ListOf DEF Counted
    <3> HIDE DEF C
    <3>2. PICK c \in C : c.receiver = r  BY <3>1, CountIsNat
    <3>3. c \in connections[e] /\ c.connected  BY DEF C, Connected
    <3> QED  BY <3>2, <3>3 DEF Entries
  <2>2. ListsClean  BY DEF Flags, ListsClean, Connected
  <2> QED  BY <2>1, <2>2 DEF ListsExact
<1> QED  BY <1>1, SignalsAreInvariant, PTL

-----------------------------------------------------------------------------
(* Lists, counts and flags implement the contract. *)

\* A connection as the contract has it, and what it sees of a call of emitSignal.
Seen(o, c) == [id |-> c.id, emitter |-> o, signal |-> c.signal, receiver |-> c.receiver]

Rest(e) == IF e.calling THEN e.rest - 1 ELSE e.rest

View(lists, e) ==
    [due |-> {c.id : c \in {d \in Connected(lists[e.emitter]) :
                               d.signal = e.signal /\ d.id <= Rest(e)}},
     calling |-> e.calling]

Views == [due : SUBSET (1..MaxConnections), calling : BOOLEAN]

\* A view whose next slot is called, and one whose slot has returned.
LEMMA ViewUpdated ==
    ASSUME NEW v \in Views, NEW d, NEW w
    PROVE  /\ w = [due |-> v.due \ {d}, calling |-> TRUE]
                => [v EXCEPT !.due = @ \ {d}, !.calling = TRUE] = w
           /\ w = [due |-> v.due, calling |-> FALSE] => [v EXCEPT !.calling = FALSE] = w
<1> USE DEF Views
<1>1. ASSUME w = [due |-> v.due \ {d}, calling |-> TRUE]
      PROVE  [v EXCEPT !.due = @ \ {d}, !.calling = TRUE] = w
  <2> DEFINE u == [v EXCEPT !.due = @ \ {d}, !.calling = TRUE]
  <2>1. u \in Views  OBVIOUS
  <2>2. u.due = v.due \ {d} /\ u.calling = TRUE  OBVIOUS
  <2> HIDE DEF u
  <2>3. u = [due |-> u.due, calling |-> u.calling]  BY <2>1
  <2>4. u = w  BY <1>1, <2>2, <2>3
  <2> QED  BY <2>4 DEF u
<1>2. ASSUME w = [due |-> v.due, calling |-> FALSE]
      PROVE  [v EXCEPT !.calling = FALSE] = w
  <2> DEFINE u == [v EXCEPT !.calling = FALSE]
  <2>1. u \in Views  OBVIOUS
  <2>2. u.due = v.due /\ u.calling = FALSE  OBVIOUS
  <2> HIDE DEF u
  <2>3. u = [due |-> u.due, calling |-> u.calling]  BY <2>1
  <2>4. u = w  BY <1>2, <2>2, <2>3
  <2> QED  BY <2>4 DEF u
<1> QED  BY <1>1, <1>2

LEMMA SameFunction ==
    ASSUME NEW D, NEW S, NEW f \in [D -> S], NEW g \in [D -> S], \A i \in D : f[i] = g[i]
    PROVE  f = g
OBVIOUS

LEMMA SeenConnections ==
    ASSUME NEW y
    PROVE  y \in AllConnected
             <=> \E o \in Objects : \E c \in Connected(connections[o]) : y = Seen(o, c)
BY DEF AllConnected, Seen

LEMMA ViewType ==
    ASSUME NEW lists, NEW e \in Emission, lists[e.emitter] \in SUBSET ConnectionData
    PROVE  View(lists, e) \in Views
<1>1. \A c \in Connected(lists[e.emitter]) : c.id \in 1..MaxConnections
  BY DEF Connected, ConnectionData
<1>2. e.calling \in BOOLEAN  BY DEF Emission
<1> QED  BY <1>1, <1>2 DEF View, Views

LEMMA SeenCalls ==
    ASSUME TypeOK
    PROVE  /\ EmissionsDue \in Seq(Views) /\ Len(EmissionsDue) = Depth /\ Depth \in Nat
           /\ EmissionsDue \in [1..Depth -> Views]
           /\ \A i \in 1..Depth : EmissionsDue[i] = View(connections, emissions[i])
           /\ EmissionsDue = <<>> <=> emissions = <<>>
           /\ emissions # <<>> => Contract!Last(EmissionsDue) = View(connections, Top)
           /\ Contract!UserRuns <=> UserRuns
<1>1. /\ Depth \in Nat /\ emissions \in [1..Depth -> Emission]
      /\ emissions = <<>> <=> Depth = 0
      /\ emissions # <<>> => Top = emissions[Depth] /\ Depth \in 1..Depth
      /\ DOMAIN emissions = 1..Depth
  BY Stack
<1>2. EmissionsDue = [i \in 1..Depth |-> View(connections, emissions[i])]
  BY <1>1 DEF EmissionsDue, View, Due, Rest
<1>3. \A i \in 1..Depth : View(connections, emissions[i]) \in Views
  <2> SUFFICES ASSUME NEW i \in 1..Depth PROVE View(connections, emissions[i]) \in Views
    OBVIOUS
  <2>1. emissions[i] \in Emission /\ emissions[i].emitter \in Objects
    BY <1>1 DEF Emission
  <2>2. connections[emissions[i].emitter] \in SUBSET ConnectionData  BY <2>1 DEF TypeOK
  <2> QED  BY <2>1, <2>2, ViewType
<1>4. EmissionsDue \in [1..Depth -> Views]  BY <1>2, <1>3
<1>5. EmissionsDue \in Seq(Views) /\ Len(EmissionsDue) = Depth
  <2> DEFINE v == EmissionsDue
             n == Depth
  <2>1. v \in [1..n -> Views] /\ n \in Nat  BY <1>1, <1>4
  <2> HIDE DEF v, n
  <2>2. v \in Seq(Views)  BY <2>1, IsASeq
  <2>3. Len(v) = n  BY <2>1, <2>2, LenProperties
  <2> QED  BY <2>2, <2>3 DEF v, n
<1>6. EmissionsDue = <<>> <=> emissions = <<>>  BY <1>1, <1>5, EmptySeq
<1>7. emissions # <<>> => Contract!Last(EmissionsDue) = View(connections, Top)
  <2> SUFFICES ASSUME emissions # <<>> PROVE Contract!Last(EmissionsDue) = View(connections, Top)
    OBVIOUS
  <2>1. Contract!Last(EmissionsDue) = EmissionsDue[Depth]  BY <1>5 DEF Contract!Last
  <2> QED  BY <1>1, <1>2, <2>1
<1>8. Contract!UserRuns <=> UserRuns
  BY <1>6, <1>7 DEF Contract!UserRuns, UserRuns, View
<1> QED  BY <1>1, <1>2, <1>4, <1>5, <1>6, <1>7, <1>8

LEMMA SeenCallsNext ==
    ASSUME TypeOK'
    PROVE  /\ EmissionsDue' \in Seq(Views) /\ Len(EmissionsDue') = Depth'
           /\ EmissionsDue' \in [1..Depth' -> Views]
           /\ \A i \in 1..Depth' : EmissionsDue'[i] = View(connections', emissions'[i])
<1>1. (TypeOK => /\ EmissionsDue \in Seq(Views) /\ Len(EmissionsDue) = Depth
                 /\ EmissionsDue \in [1..Depth -> Views]
                 /\ \A i \in 1..Depth : EmissionsDue[i] = View(connections, emissions[i]))'
  BY SeenCalls, PTL
<1> QED  BY <1>1

\* What a step leaves of the connections decides what the contract sees of it.
LEMMA SeenConnectionsLeft ==
    ASSUME NEW gone \in SUBSET AllConnected,
           \A e \in Objects :
              Connected(connections'[e]) = {c \in Connected(connections[e]) : Seen(e, c) \notin gone}
    PROVE  AllConnected' = AllConnected \ gone
<1>1. ASSUME NEW y PROVE y \in AllConnected' <=> y \in AllConnected \ gone
  <2>1. y \in AllConnected'
          <=> \E o \in Objects : \E c \in Connected(connections'[o]) : y = Seen(o, c)
    BY DEF AllConnected, Seen
  <2>2. \A o \in Objects : \A c : c \in Connected(connections'[o])
          <=> c \in Connected(connections[o]) /\ Seen(o, c) \notin gone
    OBVIOUS
  <2> QED  BY <2>1, <2>2, SeenConnections
<1> QED  BY <1>1

LEMMA ViewLeft ==
    ASSUME TypeOK, Entries, NEW gone \in SUBSET AllConnected, NEW e, NEW f, e.emitter \in Objects,
           f.emitter = e.emitter, f.signal = e.signal, f.rest = e.rest, f.calling = e.calling,
           \A o \in Objects :
              Connected(connections'[o]) = {c \in Connected(connections[o]) : Seen(o, c) \notin gone}
    PROVE  View(connections', f) = [View(connections, e) EXCEPT !.due = @ \ Contract!Ids(gone)]
<1> DEFINE o == e.emitter
           before == {c.id : c \in {d \in Connected(connections[o]) :
                                       d.signal = e.signal /\ d.id <= Rest(e)}}
           after == {c.id : c \in {d \in Connected(connections'[o]) :
                                       d.signal = e.signal /\ d.id <= Rest(e)}}
<1>1. Rest(f) = Rest(e)  BY DEF Rest
<1>2. View(connections', f) = [due |-> after, calling |-> e.calling]  BY <1>1 DEF View
<1>3. View(connections, e) = [due |-> before, calling |-> e.calling]  BY DEF View
<1>4. ASSUME NEW c \in Connected(connections[o])
      PROVE  Seen(o, c) \in gone <=> c.id \in Contract!Ids(gone)
  <2>1. Seen(o, c).id = c.id  BY DEF Seen
  <2>2. ASSUME c.id \in Contract!Ids(gone) PROVE Seen(o, c) \in gone
    <3>1. PICK g \in gone : g.id = c.id  BY <2>2 DEF Contract!Ids
    <3>2. PICK q \in Objects : \E d \in Connected(connections[q]) : g = Seen(q, d)
      BY SeenConnections
    <3>3. PICK d \in Connected(connections[q]) : g = Seen(q, d)  BY <3>2
    <3>4. d.id = c.id  BY <3>1, <3>3 DEF Seen
    <3>5. q = o /\ d = c  BY <3>4 DEF Entries, Connected
    <3> QED  BY <3>3, <3>5
  <2>3. ASSUME Seen(o, c) \in gone PROVE c.id \in Contract!Ids(gone)
    BY <2>1, <2>3 DEF Contract!Ids
  <2> QED  BY <2>2, <2>3
<1>5. after = before \ Contract!Ids(gone)
  <2>1. \A c : c \in Connected(connections'[o])
          <=> c \in Connected(connections[o]) /\ c.id \notin Contract!Ids(gone)
    BY <1>4
  <2> QED  BY <2>1
<1> HIDE DEF before, after
<1> QED  BY <1>2, <1>3, <1>5

\* Disconnecting forgets the connections that go, also in the emissions under way.
LEMMA Forgotten ==
    ASSUME SignalsInvariant, TypeOK', NEW gone \in SUBSET AllConnected,
           Depth' = Depth,
           \A i \in 1..Depth :
              /\ emissions'[i].emitter = emissions[i].emitter
              /\ emissions'[i].signal = emissions[i].signal
              /\ emissions'[i].rest = emissions[i].rest
              /\ emissions'[i].calling = emissions[i].calling,
           \A o \in Objects :
              Connected(connections'[o]) = {c \in Connected(connections[o]) : Seen(o, c) \notin gone},
           made' = made
    PROVE  Contract!Forget(gone)
<1> USE DEF SignalsInvariant
<1>1. AllConnected' = AllConnected \ gone  BY SeenConnectionsLeft
<1>2. /\ EmissionsDue \in [1..Depth -> Views] /\ Depth \in Nat
      /\ \A i \in 1..Depth : EmissionsDue[i] = View(connections, emissions[i])
  BY SeenCalls
<1>3. /\ EmissionsDue' \in [1..Depth -> Views]
      /\ \A i \in 1..Depth : EmissionsDue'[i] = View(connections', emissions'[i])
  BY SeenCallsNext
<1>4. \A i \in 1..Depth :
        EmissionsDue'[i] = [EmissionsDue[i] EXCEPT !.due = @ \ Contract!Ids(gone)]
  <2> SUFFICES ASSUME NEW i \in 1..Depth
               PROVE  EmissionsDue'[i] = [EmissionsDue[i] EXCEPT !.due = @ \ Contract!Ids(gone)]
    OBVIOUS
  <2>1. emissions[i].emitter \in Objects  BY Stack DEF Emission
  <2>2. View(connections', emissions'[i])
          = [View(connections, emissions[i]) EXCEPT !.due = @ \ Contract!Ids(gone)]
    BY <2>1, ViewLeft
  <2> QED  BY <1>2, <1>3, <2>2
<1>5. EmissionsDue' = [i \in DOMAIN EmissionsDue |->
                          [EmissionsDue[i] EXCEPT !.due = @ \ Contract!Ids(gone)]]
  BY <1>2, <1>3, <1>4
<1> QED  BY <1>1, <1>5 DEF Contract!Forget

LEMMA DisconnectForgets ==
    ASSUME SignalsInvariant, NEW o \in Objects, NEW ss \in SUBSET Signals, NEW rs \in SUBSET Receivers,
           Disconnect(o, ss, rs)
    PROVE  Contract!Disconnect(o, ss, rs)
<1> DEFINE gone == Matching(o, ss, rs)
           list == connections[o]
           seen == {c \in AllConnected : c.emitter = o /\ c.signal \in ss /\ c.receiver \in rs}
<1>1. TypeOK'  BY DisconnectKeeps DEF SignalsInvariant
<1>2. Depth' = Depth /\ emissions' = emissions /\ made' = made /\ UserRuns
  BY DEF Disconnect, Depth
<1>3. \A e \in Objects : connections'[e] = IF e = o THEN Without(o, list, gone) ELSE connections[e]
  BY DEF Disconnect, SignalsInvariant, TypeOK
<1>4. Connected(Without(o, list, gone)) = Connected(list) \ gone
  <2>1. list \in SUBSET ConnectionData /\ DistinctIds(list)  BY ListOf DEF SignalsInvariant
  <2>2. gone \in SUBSET Connected(list)  BY DEF Matching
  <2> HIDE DEF list, gone
  <2> QED  BY <2>1, <2>2, LeftConnected
<1>5. \A e \in Objects : \A c \in Connected(connections[e]) :
        Seen(e, c) \in seen <=> e = o /\ c \in gone
  <2> SUFFICES ASSUME NEW e \in Objects, NEW c \in Connected(connections[e])
               PROVE  Seen(e, c) \in seen <=> e = o /\ c \in gone
    OBVIOUS
  <2>1. Seen(e, c) \in AllConnected  BY SeenConnections
  <2>2. Seen(e, c).emitter = e /\ Seen(e, c).signal = c.signal /\ Seen(e, c).receiver = c.receiver
    BY DEF Seen
  <2> QED  BY <2>1, <2>2 DEF Matching
<1>6. \A e \in Objects :
        Connected(connections'[e]) = {c \in Connected(connections[e]) : Seen(e, c) \notin seen}
  <2> SUFFICES ASSUME NEW e \in Objects
               PROVE  Connected(connections'[e])
                        = {c \in Connected(connections[e]) : Seen(e, c) \notin seen}
    OBVIOUS
  <2> HIDE DEF seen
  <2>1. CASE e = o  BY <1>3, <1>4, <1>5, <2>1
  <2>2. CASE e # o  BY <1>3, <1>5, <2>2
  <2> QED  BY <2>1, <2>2
<1>7. Contract!Forget(seen)
  <2>1. seen \in SUBSET AllConnected  OBVIOUS
  <2> HIDE DEF seen
  <2> QED  BY <1>1, <1>2, <1>6, <2>1, Forgotten
<1> QED  BY <1>2, <1>7, SeenCalls DEF Contract!Disconnect, SignalsInvariant

LEMMA DestroyForgets ==
    ASSUME SignalsInvariant, NEW o \in Objects, Destroy(o)
    PROVE  Contract!Destroy(o)
<1> DEFINE seen == {c \in AllConnected : c.emitter = o \/ c.receiver = o}
<1>1. TypeOK'  BY DestroyKeeps DEF SignalsInvariant
<1>2. made' = made /\ UserRuns  BY DEF Destroy
<1>3. \A e \in Objects : connections'[e] = IF e = o THEN {} ELSE LeftBy(o, e)
  <2> DEFINE left == [e \in Objects |-> LeftBy(o, e)]
  <2>1. connections' = [left EXCEPT ![o] = {}]  BY DEF Destroy, LeftBy
  <2> QED  BY <2>1
<1>4. \A e \in Objects :
        Connected(LeftBy(o, e)) = {c \in Connected(connections[e]) : c.receiver # o}
  BY LeftByDestroyed DEF SignalsInvariant
<1>5. \A e \in Objects : \A c \in Connected(connections[e]) :
        Seen(e, c) \in seen <=> e = o \/ c.receiver = o
  <2> SUFFICES ASSUME NEW e \in Objects, NEW c \in Connected(connections[e])
               PROVE  Seen(e, c) \in seen <=> e = o \/ c.receiver = o
    OBVIOUS
  <2>1. Seen(e, c) \in AllConnected  BY SeenConnections
  <2>2. Seen(e, c).emitter = e /\ Seen(e, c).receiver = c.receiver  BY DEF Seen
  <2> QED  BY <2>1, <2>2
<1>6. \A e \in Objects :
        Connected(connections'[e]) = {c \in Connected(connections[e]) : Seen(e, c) \notin seen}
  <2> SUFFICES ASSUME NEW e \in Objects
               PROVE  Connected(connections'[e])
                        = {c \in Connected(connections[e]) : Seen(e, c) \notin seen}
    OBVIOUS
  <2> HIDE DEF seen
  <2>1. CASE e = o
    <3>1. Connected(connections'[e]) = {}  BY <1>3, <2>1 DEF Connected
    <3> QED  BY <1>5, <2>1, <3>1
  <2>2. CASE e # o  BY <1>3, <1>4, <1>5, <2>2
  <2> QED  BY <2>1, <2>2
<1>7. Contract!Forget(seen)
  <2>1. seen \in SUBSET AllConnected  OBVIOUS
  <2>2. Depth' = Depth
        /\ \A i \in 1..Depth :
              /\ emissions'[i].emitter = emissions[i].emitter
              /\ emissions'[i].signal = emissions[i].signal
              /\ emissions'[i].rest = emissions[i].rest
              /\ emissions'[i].calling = emissions[i].calling
    BY DestroyedCalls
  <2> HIDE DEF seen
  <2> QED  BY <1>1, <1>2, <1>6, <2>1, <2>2, Forgotten
<1> QED  BY <1>2, <1>7, SeenCalls DEF Contract!Destroy, SignalsInvariant

LEMMA ConnectIsSeen ==
    ASSUME SignalsInvariant, NEW o \in Objects, NEW s \in Signals, NEW r \in Receivers,
           Connect(o, s, r)
    PROVE  Contract!Connect(o, s, r)
<1> DEFINE new == [id |-> made + 1, signal |-> s, receiver |-> r, connected |-> TRUE]
           seen == [id |-> made + 1, emitter |-> o, signal |-> s, receiver |-> r]
<1>1. /\ made' = made + 1 /\ UserRuns /\ emissions' = emissions /\ Depth' = Depth
      /\ connections' = [connections EXCEPT ![o] = connections[o] \cup {new}]
  BY DEF Connect, Depth
<1>2. \A e \in Objects : Connected(connections'[e]) =
        IF e = o THEN Connected(connections[o]) \cup {new} ELSE Connected(connections[e])
  BY <1>1 DEF SignalsInvariant, TypeOK, Connected
<1>3. Seen(o, new) = seen  BY DEF Seen
<1>4. new.id = made + 1 /\ made \in Nat  BY DEF SignalsInvariant, TypeOK
<1> HIDE DEF new, seen
<1>5. AllConnected' = AllConnected \cup {seen}
  <2>1. ASSUME NEW y PROVE y \in AllConnected' <=> y \in AllConnected \cup {seen}
    <3>1. y \in AllConnected'
            <=> \E e \in Objects : \E c \in Connected(connections'[e]) : y = Seen(e, c)
      BY DEF AllConnected, Seen
    <3>2. y \in AllConnected' => y \in AllConnected \cup {seen}
      BY <1>2, <1>3, <3>1, SeenConnections
    <3>3. y \in AllConnected => y \in AllConnected'
      BY <1>2, <3>1, SeenConnections
    <3>4. y = seen => y \in AllConnected'  BY <1>2, <1>3, <3>1
    <3> QED  BY <3>2, <3>3, <3>4
  <2> QED  BY <2>1
<1>6. \A i \in 1..Depth : View(connections', emissions[i]) = View(connections, emissions[i])
  <2> SUFFICES ASSUME NEW i \in 1..Depth
               PROVE  View(connections', emissions[i]) = View(connections, emissions[i])
    OBVIOUS
  <2> DEFINE e == emissions[i]
  <2>1. e.emitter \in Objects /\ e.rest \in Int /\ e.rest <= made
    BY Stack DEF SignalsInvariant, Calls, Emission
  <2>2. ~(new.id <= Rest(e))  BY <1>4, <2>1 DEF Rest
  <2> HIDE DEF e
  <2>3. {d \in Connected(connections'[e.emitter]) : d.signal = e.signal /\ d.id <= Rest(e)}
          = {d \in Connected(connections[e.emitter]) : d.signal = e.signal /\ d.id <= Rest(e)}
    BY <1>2, <2>1, <2>2
  <2>4. View(connections', e) = View(connections, e)  BY <2>3 DEF View
  <2> QED  BY <2>4 DEF e
<1>7. EmissionsDue' = EmissionsDue
  <2>1. /\ EmissionsDue \in [1..Depth -> Views]
        /\ \A i \in 1..Depth : EmissionsDue[i] = View(connections, emissions[i])
    BY SeenCalls DEF SignalsInvariant
  <2>2. TypeOK'  BY ConnectKeeps DEF SignalsInvariant
  <2>3. /\ EmissionsDue' \in [1..Depth -> Views]
        /\ \A i \in 1..Depth : EmissionsDue'[i] = View(connections', emissions[i])
    BY <1>1, <2>2, SeenCallsNext
  <2>4. \A i \in 1..Depth : EmissionsDue'[i] = EmissionsDue[i]  BY <1>6, <2>1, <2>3
  <2>5. EmissionsDue' \in [1..Depth -> Views]  BY <1>1, <2>3
  <2> DEFINE D == 1..Depth
             before == EmissionsDue
             after == EmissionsDue'
  <2>6. /\ before \in [D -> Views] /\ after \in [D -> Views]
        /\ \A i \in D : after[i] = before[i]
    BY <2>1, <2>4, <2>5
  <2> HIDE DEF D, before, after
  <2>7. after = before  BY <2>6, SameFunction
  <2> QED  BY <2>7 DEF before, after
<1>8. Contract!UserRuns  BY <1>1, SeenCalls DEF SignalsInvariant
<1>9. made' = made + 1  BY <1>1
<1>10. AllConnected' = AllConnected \cup
                        {[id |-> made', emitter |-> o, signal |-> s, receiver |-> r]}
  BY <1>5, <1>9 DEF seen
<1> QED  BY <1>7, <1>8, <1>9, <1>10 DEF Contract!Connect

\* Connections that are only erased, not disconnected, are none to the contract.
LEMMA SameSeen ==
    ASSUME \A o \in Objects : Connected(connections'[o]) = Connected(connections[o])
    PROVE  /\ AllConnected' = AllConnected
           /\ \A e : e.emitter \in Objects => View(connections', e) = View(connections, e)
<1>1. AllConnected' = AllConnected
  <2>1. \A y : y \in AllConnected'
          <=> \E o \in Objects : \E c \in Connected(connections'[o]) : y = Seen(o, c)
    BY DEF AllConnected, Seen
  <2> QED  BY <2>1, SeenConnections
<1>2. \A e : e.emitter \in Objects => View(connections', e) = View(connections, e)
  BY DEF View
<1> QED  BY <1>1, <1>2

LEMMA EmitIsSeen ==
    ASSUME SignalsInvariant, NEW o \in Objects, NEW s \in Signals, Emit(o, s)
    PROVE  Contract!Emit(o, s)
<1> DEFINE n == Depth
           ids == Contract!Ids({c \in AllConnected : c.emitter = o /\ c.signal = s})
           view == [due |-> ids, calling |-> FALSE]
<1>1. /\ UserRuns /\ made' = made /\ connections' = connections
      /\ \E flag : emissions' = Append(emissions, NewEmission(o, s, flag))
  BY DEF Emit
<1>2. PICK flag : emissions' = Append(emissions, NewEmission(o, s, flag))  BY <1>1
<1> DEFINE new == NewEmission(o, s, flag)
<1>3. TypeOK'  BY EmitKeeps DEF SignalsInvariant
<1>4. /\ Depth' = n + 1 /\ n \in Nat
      /\ \A i \in 1..n : emissions'[i] = emissions[i]
      /\ emissions'[n + 1] = new
  <2>1. emissions \in Seq(Emission)  BY DEF SignalsInvariant, TypeOK
  <2>2. /\ Len(emissions') = Len(emissions) + 1 /\ Len(emissions) \in Nat
        /\ \A i \in 1..Len(emissions) : emissions'[i] = emissions[i]
        /\ emissions'[Len(emissions) + 1] = new
    <3> HIDE DEF new
    <3> QED  BY <1>2, <2>1 DEF new
  <2> QED  BY <2>2 DEF Depth
<1>5. /\ new.emitter = o /\ new.signal = s /\ new.rest = made /\ new.calling = FALSE
  BY DEF NewEmission
<1> HIDE DEF new
<1>6. View(connections, new) = view
  <2>1. ids = {c.id : c \in {d \in Connected(connections[o]) : d.signal = s /\ d.id <= made}}
    <3>1. ASSUME NEW x \in ids
          PROVE  x \in {c.id : c \in {d \in Connected(connections[o]) : d.signal = s /\ d.id <= made}}
      <4>1. PICK y \in AllConnected : y.emitter = o /\ y.signal = s /\ x = y.id
        BY <3>1 DEF Contract!Ids
      <4>2. PICK e \in Objects : \E c \in Connected(connections[e]) : y = Seen(e, c)
        BY SeenConnections
      <4>3. PICK c \in Connected(connections[e]) : y = Seen(e, c)  BY <4>2
      <4>4. e = o /\ c.signal = s /\ x = c.id  BY <4>1, <4>3 DEF Seen
      <4>5. c.id <= made  BY <4>3 DEF SignalsInvariant, Entries, Connected
      <4> QED  BY <4>3, <4>4, <4>5
    <3>2. ASSUME NEW c \in Connected(connections[o]), c.signal = s
          PROVE  c.id \in ids
      <4>1. Seen(o, c) \in AllConnected  BY SeenConnections
      <4>2. Seen(o, c).emitter = o /\ Seen(o, c).signal = s /\ Seen(o, c).id = c.id
        BY <3>2 DEF Seen
      <4> QED  BY <4>1, <4>2 DEF Contract!Ids
    <3> QED  BY <3>1, <3>2
  <2>2. Rest(new) = made  BY <1>5 DEF Rest
  <2> HIDE DEF ids
  <2> QED  BY <1>5, <2>1, <2>2 DEF View
<1>7. /\ EmissionsDue \in Seq(Views) /\ Len(EmissionsDue) = n
      /\ \A i \in 1..n : EmissionsDue[i] = View(connections, emissions[i])
      /\ Contract!UserRuns
  BY <1>1, SeenCalls DEF SignalsInvariant
<1>8. /\ EmissionsDue' \in Seq(Views) /\ Len(EmissionsDue') = n + 1
      /\ EmissionsDue' \in [1..(n + 1) -> Views]
      /\ \A i \in 1..(n + 1) : EmissionsDue'[i] = View(connections, emissions'[i])
  BY <1>1, <1>3, <1>4, SeenCallsNext
<1> HIDE DEF view, n
<1>9. view \in Views  BY <1>4, <1>6, <1>8
<1>10. EmissionsDue' = Append(EmissionsDue, view)
  <2> DEFINE a == Append(EmissionsDue, view)
  <2>1. /\ a \in Seq(Views) /\ Len(a) = n + 1 /\ a[n + 1] = view
        /\ \A i \in 1..n : a[i] = EmissionsDue[i]
    BY <1>7, <1>9, Appended
  <2> HIDE DEF a
  <2>2. \A i \in 1..(n + 1) : EmissionsDue'[i] = a[i]
    <3> SUFFICES ASSUME NEW i \in 1..(n + 1) PROVE EmissionsDue'[i] = a[i]  OBVIOUS
    <3>1. CASE i = n + 1  BY <1>4, <1>6, <1>8, <2>1, <3>1
    <3>2. CASE i # n + 1
      <4>1. i \in 1..n  BY <1>4, <3>2
      <4> QED  BY <1>4, <1>7, <1>8, <2>1, <4>1
    <3> QED  BY <3>1, <3>2
  <2>3. a \in [1..(n + 1) -> Views]  BY <2>1, LenProperties
  <2>4. EmissionsDue' = a  BY <1>8, <2>2, <2>3
  <2> QED  BY <2>4 DEF a
<1>11. AllConnected' = AllConnected  BY <1>1 DEF AllConnected
<1> QED  BY <1>1, <1>7, <1>10, <1>11 DEF Contract!Emit, view

\* A step that changes only rest and calling of the innermost call, as the contract sees it.
LEMMA TopIsSeen ==
    ASSUME SignalsInvariant, SignalsInvariant', emissions # <<>>,
           NEW x, emissions' = [emissions EXCEPT ![Depth] = x], x.emitter = Top.emitter,
           UNCHANGED <<objectVars, made>>
    PROVE  /\ EmissionsDue' = [EmissionsDue EXCEPT ![Len(EmissionsDue)] = View(connections, x)]
           /\ EmissionsDue[Len(EmissionsDue)] = View(connections, Top)
           /\ Len(EmissionsDue) \in 1..Len(EmissionsDue)
           /\ EmissionsDue \in [1..Len(EmissionsDue) -> Views]
           /\ AllConnected' = AllConnected
<1> DEFINE n == Depth
<1>1. /\ n \in Nat /\ n \in 1..n /\ Top = emissions[n] /\ emissions \in [1..n -> Emission]
  BY Stack DEF SignalsInvariant
<1>2. connections' = connections /\ AllConnected' = AllConnected
  BY DEF objectVars, AllConnected
<1>3. /\ EmissionsDue \in [1..n -> Views] /\ Len(EmissionsDue) = n
      /\ \A i \in 1..n : EmissionsDue[i] = View(connections, emissions[i])
  BY SeenCalls DEF SignalsInvariant
<1>4. Depth' = n
  <2>1. emissions' \in [1..n -> {emissions'[i] : i \in 1..n}]  BY <1>1
  <2>2. DOMAIN emissions' = 1..n  BY <1>1
  <2>3. Depth' \in Nat /\ DOMAIN emissions' = 1..Depth'
    <3>1. emissions' \in Seq(Emission)  BY DEF SignalsInvariant, TypeOK
    <3> QED  BY <3>1, LenProperties DEF Depth
  <2> HIDE DEF n
  <2> QED  BY <1>1, <2>2, <2>3
<1>5. /\ EmissionsDue' \in [1..n -> Views]
      /\ \A i \in 1..n : EmissionsDue'[i] = View(connections, emissions'[i])
  BY <1>2, <1>4, SeenCallsNext DEF SignalsInvariant
<1>6. \A i \in 1..n : emissions'[i] = IF i = n THEN x ELSE emissions[i]  BY <1>1
<1>7. \A i \in 1..n : EmissionsDue'[i] = IF i = n THEN View(connections, x) ELSE EmissionsDue[i]
  BY <1>3, <1>5, <1>6
<1> HIDE DEF n
<1>8. EmissionsDue' = [EmissionsDue EXCEPT ![n] = View(connections, x)]
  BY <1>1, <1>3, <1>5, <1>7
<1> QED  BY <1>1, <1>2, <1>3, <1>8

\* A call that returns is the innermost emission of the contract.
LEMMA PopIsSeen ==
    ASSUME SignalsInvariant, SignalsInvariant', emissions # <<>>, emissions' = Front(emissions),
           \A o \in Objects : Connected(connections'[o]) = Connected(connections[o]),
           View(connections, Top).due = {}, made' = made
    PROVE  Contract!EmissionEnds
<1> DEFINE n == Depth
<1>1. /\ n \in Nat /\ n \in 1..n /\ emissions \in [1..n -> Emission]
  BY Stack DEF SignalsInvariant
<1>2. AllConnected' = AllConnected  BY SameSeen
<1>3. /\ EmissionsDue \in Seq(Views) /\ Len(EmissionsDue) = n /\ EmissionsDue # <<>>
      /\ EmissionsDue \in [1..n -> Views]
      /\ \A i \in 1..n : EmissionsDue[i] = View(connections, emissions[i])
      /\ Contract!Last(EmissionsDue) = View(connections, Top)
  BY SeenCalls DEF SignalsInvariant
<1>4. /\ Depth' = n - 1 /\ \A i \in 1..(n - 1) : emissions'[i] = emissions[i]
  BY TopOfStack DEF SignalsInvariant, TypeOK, Depth
<1>5. /\ EmissionsDue' \in [1..(n - 1) -> Views]
      /\ \A i \in 1..(n - 1) : EmissionsDue'[i] = View(connections', emissions[i])
  BY <1>4, SeenCallsNext DEF SignalsInvariant
<1>6. \A i \in 1..(n - 1) : EmissionsDue'[i] = EmissionsDue[i]
  <2> SUFFICES ASSUME NEW i \in 1..(n - 1) PROVE EmissionsDue'[i] = EmissionsDue[i]  OBVIOUS
  <2>1. i \in 1..n /\ emissions[i].emitter \in Objects  BY <1>1 DEF Emission
  <2>2. View(connections', emissions[i]) = View(connections, emissions[i])  BY <2>1, SameSeen
  <2> QED  BY <1>3, <1>5, <2>1, <2>2
<1> HIDE DEF n
<1>7. EmissionsDue' = Contract!Front(EmissionsDue)
  <2> DEFINE f == Front(EmissionsDue)
  <2>1. f \in Seq(Views) /\ Len(f) = n - 1 /\ \A i \in 1..(n - 1) : f[i] = EmissionsDue[i]
    BY <1>3, TopOfStack
  <2>2. f = Contract!Front(EmissionsDue)  BY DEF Front, Contract!Front
  <2> HIDE DEF f
  <2>3. f \in [1..(n - 1) -> Views]  BY <2>1, LenProperties
  <2>4. EmissionsDue' = f  BY <1>5, <1>6, <2>1, <2>3
  <2> QED  BY <2>2, <2>4
<1> QED  BY <1>2, <1>3, <1>7 DEF Contract!EmissionEnds

LEMMA CallSlotIsSeen ==
    ASSUME SignalsInvariant, CallSlot
    PROVE  Contract!CallSlot
<1> DEFINE n == Depth
           v == View(connections, Top)
<1>1. /\ emissions # <<>> /\ ~Top.calling /\ ~UserRuns /\ UNCHANGED <<objectVars, made>>
  BY DEF CallSlot, UserRuns
<1>2. /\ n \in 1..n /\ Top = emissions[n] /\ emissions \in [1..n -> Emission]
      /\ emissions[n] \in Emission /\ Top.emitter \in Objects /\ Top.rest \in Int
  BY <1>1, Stack DEF SignalsInvariant, Emission
<1>3. PICK c \in Due(Top, Top.rest) :
        /\ \A d \in Due(Top, Top.rest) : d.id <= c.id
        /\ emissions' = [emissions EXCEPT ![Depth].rest = c.id, ![Depth].calling = TRUE]
  BY DEF CallSlot
<1> DEFINE x == [emissions[n] EXCEPT !.rest = c.id, !.calling = TRUE]
<1>4. /\ x.emitter = Top.emitter /\ x.signal = Top.signal /\ x.rest = c.id /\ x.calling = TRUE
      /\ emissions' = [emissions EXCEPT ![Depth] = x]
  BY <1>2, <1>3 DEF Emission
<1> HIDE DEF x
<1>5. SignalsInvariant'  BY CallSlotKeeps
<1>6. v.due = {d.id : d \in Due(Top, Top.rest)} /\ v.calling = FALSE
  BY <1>1, <1>2 DEF View, Due, Rest, Emission
<1>7. \A d \in Due(Top, Top.rest) : d.id \in Int
  <2>1. \A d \in connections[Top.emitter] : d \in ConnectionData
    BY <1>2, ListOf DEF SignalsInvariant
  <2> QED  BY <2>1 DEF Due, Connected, ConnectionData
<1>8. View(connections, x) = [due |-> v.due \ {c.id}, calling |-> TRUE]
  <2>1. Rest(x) = c.id - 1  BY <1>4 DEF Rest
  <2>2. {d \in Connected(connections[x.emitter]) : d.signal = x.signal /\ d.id <= Rest(x)}
          = {d \in Due(Top, Top.rest) : d.id # c.id}
    <3>1. \A d \in Due(Top, c.id - 1) : d.id \in Int
      <4>1. \A d \in connections[Top.emitter] : d \in ConnectionData
        BY <1>2, ListOf DEF SignalsInvariant
      <4> QED  BY <4>1 DEF Due, Connected, ConnectionData
    <3>2. c.id <= Top.rest /\ c.id \in Int  BY <1>7 DEF Due
    <3>3. Due(Top, c.id - 1) \subseteq {d \in Due(Top, Top.rest) : d.id # c.id}
      BY <1>2, <3>1, <3>2 DEF Due
    <3>4. {d \in Due(Top, Top.rest) : d.id # c.id} \subseteq Due(Top, c.id - 1)
      BY <1>3, <1>7, <3>2 DEF Due
    <3> QED  BY <1>4, <2>1, <3>3, <3>4 DEF Due
  <2>3. {d.id : d \in {d \in Due(Top, Top.rest) : d.id # c.id}} = v.due \ {c.id}  BY <1>6
  <2> HIDE DEF v
  <2> QED  BY <1>4, <2>2, <2>3 DEF View
<1>9. /\ EmissionsDue' = [EmissionsDue EXCEPT ![Len(EmissionsDue)] = View(connections, x)]
      /\ EmissionsDue[Len(EmissionsDue)] = v
      /\ Len(EmissionsDue) \in 1..Len(EmissionsDue)
      /\ EmissionsDue \in [1..Len(EmissionsDue) -> Views]
      /\ AllConnected' = AllConnected
  BY <1>1, <1>4, <1>5, TopIsSeen
<1>10. v \in Views  BY <1>9
<1>12. Contract!Last(EmissionsDue) = v /\ ~Contract!UserRuns
  BY <1>1, SeenCalls DEF SignalsInvariant
<1> HIDE DEF v
<1>11. [v EXCEPT !.due = @ \ {c.id}, !.calling = TRUE] = View(connections, x)
  BY <1>8, <1>10, ViewUpdated
<1>13. EmissionsDue' = [EmissionsDue EXCEPT ![Len(EmissionsDue)].due = @ \ {c.id},
                                            ![Len(EmissionsDue)].calling = TRUE]
  BY <1>9, <1>11
<1>14. c.id \in v.due /\ \A other \in v.due : other <= c.id  BY <1>3, <1>6
<1>15. made' = made  BY <1>1
<1> QED  BY <1>9, <1>12, <1>13, <1>14, <1>15 DEF Contract!CallSlot

LEMMA SlotReturnsIsSeen ==
    ASSUME SignalsInvariant, SlotReturns
    PROVE  Contract!SlotReturns \/ Contract!EmissionEnds
<1> DEFINE n == Depth
           v == View(connections, Top)
<1>1. /\ emissions # <<>> /\ Top.calling /\ UserRuns
      /\ UNCHANGED <<objectVars, made, touchesDestroyed>>
  BY DEF SlotReturns, UserRuns
<1>2. /\ n \in 1..n /\ Top = emissions[n] /\ emissions \in [1..n -> Emission]
      /\ emissions[n] \in Emission /\ Top.emitter \in Objects
  BY <1>1, Stack DEF SignalsInvariant, Emission
<1>3. SignalsInvariant'  BY SlotReturnsKeeps
<1>4. CASE emissions[Top.flag].isDestroyed
  <2>1. emissions' = Front(emissions)  BY <1>4 DEF SlotReturns
  <2>2. Top.emitter \notin alive  BY <1>2, <1>4 DEF SignalsInvariant, Calls
  <2>3. connections[Top.emitter] = {}  BY <1>2, <2>2 DEF SignalsInvariant, Entries
  <2>4. View(connections, Top).due = {}  BY <2>3 DEF View, Connected
  <2>5. connections' = connections /\ made' = made  BY <1>1 DEF objectVars
  <2> QED  BY <1>1, <1>3, <2>1, <2>4, <2>5, PopIsSeen
<1>5. CASE ~emissions[Top.flag].isDestroyed
  <2> DEFINE x == [emissions[n] EXCEPT !.rest = @ - 1, !.calling = FALSE]
  <2>1. emissions' = [emissions EXCEPT ![Depth].rest = @ - 1, ![Depth].calling = FALSE]
    BY <1>5 DEF SlotReturns
  <2>2. /\ x.emitter = Top.emitter /\ x.signal = Top.signal /\ x.rest = Top.rest - 1
        /\ x.calling = FALSE
        /\ emissions' = [emissions EXCEPT ![Depth] = x]
    BY <1>2, <2>1 DEF Emission
  <2> HIDE DEF x
  <2>3. View(connections, x) = [due |-> v.due, calling |-> FALSE]
    <3>1. Rest(x) = Rest(Top)  BY <1>1, <2>2 DEF Rest
    <3> QED  BY <2>2, <3>1 DEF View
  <2>4. /\ EmissionsDue' = [EmissionsDue EXCEPT ![Len(EmissionsDue)] = View(connections, x)]
        /\ EmissionsDue[Len(EmissionsDue)] = v
        /\ Len(EmissionsDue) \in 1..Len(EmissionsDue)
        /\ EmissionsDue \in [1..Len(EmissionsDue) -> Views]
        /\ AllConnected' = AllConnected
    BY <1>1, <1>3, <2>2, TopIsSeen
  <2>5. v \in Views  BY <2>4
  <2>7. Contract!UserRuns /\ EmissionsDue # <<>>  BY <1>1, SeenCalls DEF SignalsInvariant
  <2> HIDE DEF v
  <2>6. [v EXCEPT !.calling = FALSE] = View(connections, x)  BY <2>3, <2>5, ViewUpdated
  <2>8. EmissionsDue' = [EmissionsDue EXCEPT ![Len(EmissionsDue)].calling = FALSE]
    BY <2>4, <2>6
  <2> QED  BY <1>1, <2>4, <2>7, <2>8 DEF Contract!SlotReturns
<1> QED  BY <1>4, <1>5

LEMMA EmissionEndsIsSeen ==
    ASSUME SignalsInvariant, EmissionEnds
    PROVE  Contract!EmissionEnds
<1>1. /\ emissions # <<>> /\ ~Top.calling /\ emissions' = Front(emissions) /\ made' = made
      /\ Due(Top, Top.rest) = {}
  BY DEF EmissionEnds, UserRuns
<1>2. SignalsInvariant'  BY EmissionEndsKeeps
<1>3. View(connections, Top).due = {}  BY <1>1 DEF View, Due, Rest
<1>4. \A o \in Objects : Connected(connections'[o]) = Connected(connections[o])
  <2>1. CASE connections' = connections  BY <2>1
  <2>2. CASE connections' = [connections EXCEPT ![Top.emitter] = Connected(@)]
    BY <2>2 DEF SignalsInvariant, TypeOK, Connected
  <2> QED  BY <2>1, <2>2 DEF EmissionEnds, Cleanup
<1> QED  BY <1>1, <1>2, <1>3, <1>4, PopIsSeen

LEMMA StepIsSeen ==
    ASSUME SignalsInvariant, [Next]_vars
    PROVE  [Contract!Next]_(Contract!vars)
<1>1. CASE \E o \in Objects, s \in Signals, r \in Receivers : Connect(o, s, r)
  BY <1>1, ConnectIsSeen DEF Contract!Next, Receivers
<1>2. CASE \E o \in Objects :
             \E ss \in {Signals} \cup {{s} : s \in Signals},
                rs \in {Receivers} \cup {{r} : r \in Objects} : Disconnect(o, ss, rs)
  <2>1. PICK o \in Objects : \E ss \in {Signals} \cup {{s} : s \in Signals},
                rs \in {Receivers} \cup {{r} : r \in Objects} : Disconnect(o, ss, rs)
    BY <1>2
  <2>2. PICK ss \in {Signals} \cup {{s} : s \in Signals},
             rs \in {Receivers} \cup {{r} : r \in Objects} : Disconnect(o, ss, rs)
    BY <2>1
  <2>3. ss \in SUBSET Signals /\ rs \in SUBSET Receivers  BY DEF Receivers
  <2>4. Contract!Disconnect(o, ss, rs)  BY <2>2, <2>3, DisconnectForgets
  <2> QED  BY <2>3, <2>4 DEF Contract!Next, Receivers
<1>3. CASE \E o \in Objects : Destroy(o)  BY <1>3, DestroyForgets DEF Contract!Next
<1>4. CASE \E o \in Objects, s \in Signals : Emit(o, s)
  BY <1>4, EmitIsSeen DEF Contract!Next
<1>5. CASE CallSlot  BY <1>5, CallSlotIsSeen DEF Contract!Next
<1>6. CASE SlotReturns  BY <1>6, SlotReturnsIsSeen DEF Contract!Next
<1>7. CASE EmissionEnds  BY <1>7, EmissionEndsIsSeen DEF Contract!Next
<1>8. CASE UNCHANGED vars
  BY <1>8 DEF vars, objectVars, Contract!vars, AllConnected, EmissionsDue, Due, Connected
<1> QED  BY <1>1, <1>2, <1>3, <1>4, <1>5, <1>6, <1>7, <1>8 DEF Next

LEMMA InitIsSeen == Init => Contract!Init
<1> SUFFICES ASSUME Init PROVE Contract!Init  OBVIOUS
<1>1. AllConnected = {}
  <2>1. \A o \in Objects : Connected(connections[o]) = {}  BY DEF Init, Connected
  <2> QED  BY <2>1, SeenConnections
<1>2. SignalsInvariant  BY InitHolds
<1>3. EmissionsDue = <<>>  BY <1>2, SeenCalls DEF SignalsInvariant, Init
<1> QED  BY <1>1, <1>3 DEF Init, Contract!Init

\* However slots connect, disconnect, emit and destroy, the slots called are those of the
\* contract: connected before the emission began, and still connected (Object::emitSignal).
THEOREM ObjectsImplementSignals == Spec => ImplementsSignals
BY InitIsSeen, StepIsSeen, SignalsAreInvariant, PTL DEF Spec, ImplementsSignals, Contract!Spec
=============================================================================
