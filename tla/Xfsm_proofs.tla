---------------------------- MODULE Xfsm_proofs ----------------------------
(***************************************************************************)
(* The table that xfsm_table_create makes, for any rows and any number of  *)
(* them: the list of nodes groups the rows by state, each node holding     *)
(* them in program order.  State any (STATE_NULL) is the exception: its    *)
(* first row renames the head node, which keeps the rows of state 0 it     *)
(* has, and a row of state 0 that comes later opens a node of its own.     *)
(* XfsmWorker_proofs and Loader_proofs cite these lemmas.                  *)
(***************************************************************************)
EXTENDS Xfsm, FiniteSetTheorems, TLAPS

-----------------------------------------------------------------------------
(* Induction over the naturals, least and greatest elements                *)

\* The naturals below the first one outside S would be closed under + 1, and
\* an injection of a finite set into itself is onto.
LEMMA Induction ==
  ASSUME NEW S, 0 \in S, \A n \in Nat : n \in S => n + 1 \in S
  PROVE  Nat \subseteq S
<1> SUFFICES ASSUME NEW k \in Nat, k \notin S PROVE FALSE
  OBVIOUS
<1> DEFINE U == {x \in 0..(k - 1) : \A t \in 0..x : t \in S}
           f == [x \in U |-> x + 1]
<1>1. 0 \in U /\ U \subseteq Nat
  <2>1. k # 0
    OBVIOUS
  <2> QED BY <2>1
<1>2. ASSUME NEW x \in U PROVE x + 1 \in U
  <2>1. x \in Nat /\ x \in S /\ x + 1 \in S /\ x <= k - 1
    OBVIOUS
  <2>2. x + 1 # k /\ x + 1 \in 0..(k - 1)
    BY <2>1
  <2>3. \A t \in 0..(x + 1) : t \in S
    BY <2>1
  <2> QED BY <2>2, <2>3
<1>3. IsFiniteSet(U)
  <2>1. IsFiniteSet(0..(k - 1)) /\ U \subseteq 0..(k - 1)
    BY FS_Interval
  <2> QED BY ONLY <2>1, FS_Subset
<1> HIDE DEF U
<1>4. f \in Injection(U, U)
  <2>1. f \in [U -> U]
    BY <1>2
  <2>2. \A x, y \in U : f[x] = f[y] => x = y
    BY <1>1
  <2> QED BY <2>1, <2>2 DEF Injection, IsInjective
<1> HIDE DEF f
<1>5. f \in Surjection(U, U)
  BY ONLY <1>3, <1>4, FS_Injection
<1>6. PICK x \in U : f[x] = 0
  BY <1>1, <1>5 DEF Surjection
<1> QED BY <1>1, <1>6 DEF f

LEMMA MinOf == ASSUME NEW T \in SUBSET Nat, T # {}
               PROVE  Min(T) \in T /\ \A y \in T : Min(T) <= y
<1> DEFINE S == {n \in Nat : \A t \in T : t > n}
<1>1. \E x \in T : \A y \in T : x <= y
  <2> SUFFICES ASSUME ~ \E x \in T : \A y \in T : x <= y PROVE FALSE
    OBVIOUS
  <2>1. 0 \in S
    OBVIOUS
  <2>2. \A n \in Nat : n \in S => n + 1 \in S
    <3> SUFFICES ASSUME NEW n \in Nat, n \in S PROVE n + 1 \in S
      OBVIOUS
    <3>1. n + 1 \notin T
      BY SMT
    <3> QED BY <3>1
  <2> HIDE DEF S
  <2>3. Nat \subseteq S
    BY <2>1, <2>2, Induction
  <2>4. PICK t \in T : t \in Nat
    OBVIOUS
  <2> QED BY <2>3, <2>4 DEF S
<1> QED BY <1>1 DEF Min

LEMMA MinIs == ASSUME NEW T \in SUBSET Nat, NEW x \in T, \A y \in T : x <= y PROVE Min(T) = x
<1>1. PICK m \in T : m = Min(T) /\ m <= x
  BY MinOf
<1> QED BY <1>1

LEMMA MaxOf == ASSUME NEW N \in Nat, NEW T \in SUBSET (1..N), T # {}
               PROVE  Max(T) \in T /\ \A y \in T : Max(T) >= y
<1> DEFINE R == {N - t : t \in T}
<1>1. R \in SUBSET Nat /\ R # {}
  <2>1. \A t \in T : N - t \in Nat
    OBVIOUS
  <2> QED BY <2>1
<1> HIDE DEF R
<1>2. Min(R) \in R /\ \A y \in R : Min(R) <= y
  BY <1>1, MinOf
<1>3. PICK t \in T : N - t = Min(R)
  BY <1>2 DEF R
<1>4. \A y \in T : t >= y
  <2> TAKE y \in T
  <2>1. N - y \in R
    BY DEF R
  <2>2. N - t <= N - y
    BY <1>2, <1>3, <2>1
  <2> QED BY <2>2
<1> QED BY <1>4 DEF Max

LEMMA MaxIs == ASSUME NEW T \in SUBSET Nat, NEW x \in T, \A y \in T : y <= x PROVE Max(T) = x
<1>1. \E m \in T : \A y \in T : m >= y
  BY SMT
<1>2. Max(T) \in T /\ \A y \in T : Max(T) >= y
  BY <1>1 DEF Max
<1>3. Max(T) \in Nat /\ x \in Nat
  BY <1>2
<1> QED BY <1>2, <1>3

-----------------------------------------------------------------------------
(* Sequences                                                               *)

LEMMA Elements == ASSUME NEW S, NEW e \in Seq(S) PROVE \A a \in DOMAIN e : e[a] \in S
  OBVIOUS

LEMMA Appended ==
  ASSUME NEW S, NEW e \in Seq(S), NEW x \in S
  PROVE  /\ Append(e, x) \in Seq(S)
         /\ Len(e) \in Nat /\ DOMAIN e = 1..Len(e)
         /\ DOMAIN Append(e, x) = 1..(Len(e) + 1)
         /\ Append(e, x)[Len(e) + 1] = x
         /\ \A a \in 1..Len(e) : Append(e, x)[a] = e[a]
  OBVIOUS

\* The place of the one element that has a property.
LEMMA NodeOf ==
  ASSUME NEW S, NEW list \in Seq(S), NEW n \in DOMAIN list, NEW state, list[n].key = state,
         \A m \in DOMAIN list : list[m].key = state => m = n
  PROVE  {m \in 1..Len(list) : list[m].key = state} = {n} /\ Min({n}) = n
<1>1. {m \in 1..Len(list) : list[m].key = state} = {n} /\ n \in Nat
  OBVIOUS
<1> QED BY <1>1, MinIs

\* An increasing sequence is no longer than the set its elements are in.
LEMMA IncreasingFits ==
  ASSUME NEW T, IsFiniteSet(T), T \subseteq Nat, NEW e \in Seq(T),
         \A a, b \in DOMAIN e : a < b => e[a] < e[b]
  PROVE  Len(e) <= Cardinality(T)
<1>1. PICK n \in Nat : n = Len(e) /\ DOMAIN e = 1..n
  OBVIOUS
<1>2. IsFiniteSet(1..n) /\ Cardinality(1..n) = n
  BY FS_Interval
<1>3. \A a \in 1..n : e[a] \in T /\ e[a] \in Nat
  <2>1. \A a \in 1..n : e[a] \in T
    BY <1>1, Elements
  <2> QED BY <2>1
<1>4. Cardinality(T) \in Nat
  BY FS_CardinalityType
<1>5. SUFFICES ASSUME Cardinality(T) < n PROVE FALSE
  BY <1>1, <1>4
<1> DEFINE f == [a \in 1..n |-> e[a]]
<1>6. f \in [1..n -> T]
  BY <1>3
<1>7. \A a, b \in 1..n : f[a] = f[b] => a = b
  <2> SUFFICES ASSUME NEW a \in 1..n, NEW b \in 1..n, a # b PROVE e[a] # e[b]
    OBVIOUS
  <2>1. a < b \/ b < a
    OBVIOUS
  <2> QED BY <1>1, <1>3, <2>1
<1> HIDE DEF f
<1>8. \E a, b \in 1..n : a # b /\ f[a] = f[b]
  BY <1>2, <1>5, <1>6, FS_PigeonHole
<1> QED BY <1>7, <1>8
-----------------------------------------------------------------------------
(* The list of nodes after each row                                        *)

\* The states of the first upto rows, and the keys the list has after them.
RowStates(rows, upto) == {rows[i].state : i \in 1..upto}
Keys(rows, upto) == RowStates(rows, upto)
                    \cup (IF STATE_NULL \in RowStates(rows, upto) THEN {} ELSE {0})

AnyNodes(rows) == [key : RowStates(rows, Len(rows)) \cup {0, STATE_NULL}, entries : Seq(1..Len(rows))]

\* The rows a node may hold: those of its state, and of state 0 with state any.
MayHold(rows, key, i) == rows[i].state = key \/ (key = STATE_NULL /\ rows[i].state = 0)

\* The rows a node has to hold: all of its state, but those of state 0 only as
\* long as state any has not taken the head node.
MustHold(rows, key, i, upto) ==
  rows[i].state = key /\ (key = 0 => STATE_NULL \notin RowStates(rows, upto))

\* What a node holds of the first upto rows.
Holds(rows, key, entries, upto) ==
  /\ entries \in Seq(1..Len(rows))
  /\ \A a, b \in DOMAIN entries : a < b => entries[a] < entries[b]
  /\ \A a \in DOMAIN entries : entries[a] <= upto /\ MayHold(rows, key, entries[a])
  /\ \A i \in 1..upto : MustHold(rows, key, i, upto) => \E a \in DOMAIN entries : entries[a] = i

\* The list when the first upto rows are in it and the keys of the first keys.
Filed(rows, list, keys, upto) ==
  /\ list \in Seq(AnyNodes(rows)) /\ Len(list) # 0
  /\ \A m, n \in DOMAIN list : list[m].key = list[n].key => m = n
  /\ list[1].key = IF STATE_NULL \in RowStates(rows, keys) THEN STATE_NULL ELSE 0
  /\ \A n \in DOMAIN list : list[n].key \in Keys(rows, keys)
  /\ \A i \in 1..keys : rows[i].state # 0 => SearchKey(list, rows[i].state)
  /\ \A n \in DOMAIN list : Holds(rows, list[n].key, list[n].entries, upto)

\* A row appended to the node of its state.
LEMMA AppendHolds ==
  ASSUME NEW rows, Len(rows) \in Nat, NEW id \in 1..Len(rows), NEW entries,
         Holds(rows, rows[id].state, entries, id - 1)
  PROVE  Holds(rows, rows[id].state, Append(entries, id), id)
<1> DEFINE key == rows[id].state
<1>1. PICK e \in Seq(1..Len(rows)) : e = entries
  BY DEF Holds
<1>2. PICK n : n = Len(e)
  OBVIOUS
<1>3. PICK f : f = Append(e, id)
  OBVIOUS
<1>4. /\ f \in Seq(1..Len(rows)) /\ n \in Nat /\ DOMAIN e = 1..n
      /\ DOMAIN f = 1..(n + 1) /\ f[n + 1] = id /\ \A a \in 1..n : f[a] = e[a]
  BY <1>2, <1>3, Appended
<1>5. \A a \in 1..n : e[a] \in 1..Len(rows) /\ e[a] < id /\ MayHold(rows, key, e[a])
  <2> TAKE a \in 1..n
  <2>1. e[a] \in 1..Len(rows)
    BY <1>4, Elements
  <2>2. e[a] <= id - 1 /\ MayHold(rows, key, e[a])
    BY <1>1, <1>4, <2>1 DEF Holds
  <2> QED BY <2>1, <2>2
<1>6. \A a \in 1..(n + 1) : a \in 1..n \/ a = n + 1
  BY <1>4
<1>7. 1..n \subseteq 1..(n + 1) /\ n + 1 \in 1..(n + 1)
  BY <1>4
<1>8. \A a, b \in 1..(n + 1) : a < b => f[a] < f[b]
  <2> SUFFICES ASSUME NEW a \in 1..(n + 1), NEW b \in 1..(n + 1), a < b PROVE f[a] < f[b]
    OBVIOUS
  <2>0. a \in 1..n
    BY <1>4
  <2>1. CASE b = n + 1
    BY <1>4, <1>5, <2>0, <2>1
  <2>2. CASE b # n + 1
    <3>1. b \in 1..n
      BY <1>4, <2>2
    <3>2. e[a] < e[b]
      BY <1>1, <1>4, <2>0, <3>1 DEF Holds
    <3> QED BY <1>4, <2>0, <3>1, <3>2
  <2> QED BY <2>1, <2>2
<1>9. \A a \in 1..(n + 1) : f[a] <= id /\ MayHold(rows, key, f[a])
  <2> TAKE a \in 1..(n + 1)
  <2>1. CASE a = n + 1
    BY <1>4, <2>1 DEF MayHold
  <2>2. CASE a \in 1..n
    <3>1. e[a] <= id /\ MayHold(rows, key, e[a])
      BY <1>5, <2>2
    <3> QED BY <1>4, <2>2, <3>1
  <2> QED BY <1>6, <2>1, <2>2
<1>10. ASSUME NEW i \in 1..id, MustHold(rows, key, i, id)
       PROVE  \E a \in 1..(n + 1) : f[a] = i
  <2>1. CASE i = id
    BY <1>4, <1>7, <2>1
  <2>2. CASE i # id
    <3>1. i \in 1..(id - 1) /\ 1..(id - 1) \subseteq 1..id
      BY <2>2
    <3>2. MustHold(rows, key, i, id - 1)
      BY <1>10, <3>1 DEF MustHold, RowStates
    <3>3. PICK a \in 1..n : e[a] = i
      BY <1>1, <1>4, <3>1, <3>2 DEF Holds
    <3> QED BY <1>4, <1>7, <3>3
  <2> QED BY <2>1, <2>2
<1> QED BY <1>1, <1>3, <1>4, <1>8, <1>9, <1>10 DEF Holds

\* A row of another state leaves a node as it is.
LEMMA OtherHolds ==
  ASSUME NEW rows, Len(rows) \in Nat, NEW id \in 1..Len(rows), NEW entries, NEW key,
         rows[id].state # key, Holds(rows, key, entries, id - 1)
  PROVE  Holds(rows, key, entries, id)
<1>1. \A a \in DOMAIN entries : entries[a] \in 1..Len(rows) /\ entries[a] <= id - 1
  BY Elements DEF Holds
<1>2. \A a \in DOMAIN entries : entries[a] <= id
  BY <1>1
<1>3. ASSUME NEW i \in 1..id, MustHold(rows, key, i, id)
      PROVE  \E a \in DOMAIN entries : entries[a] = i
  <2>1. i # id
    BY <1>3 DEF MustHold
  <2>2. i \in 1..(id - 1) /\ 1..(id - 1) \subseteq 1..id
    BY <2>1
  <2>3. MustHold(rows, key, i, id - 1)
    BY <1>3, <2>2 DEF MustHold, RowStates
  <2> QED BY <2>2, <2>3 DEF Holds
<1> QED BY <1>2, <1>3 DEF Holds

\* insert_entry, when there is a node for the row's state.
LEMMA InsertFiles ==
  ASSUME NEW rows, Len(rows) \in Nat, NEW id \in 1..Len(rows), NEW list,
         Filed(rows, list, id, id - 1), SearchKey(list, rows[id].state)
  PROVE  Filed(rows, InsertEntry(list, id, rows[id].state), id, id)
<1> DEFINE state == rows[id].state
<1>1. PICK n \in DOMAIN list : list[n].key = state
  BY DEF SearchKey
<1>2. list \in Seq(AnyNodes(rows)) /\ Len(list) # 0
      /\ \A m, k \in DOMAIN list : list[m].key = list[k].key => m = k
  BY DEF Filed
<1>3. SelectInSeq(list, LAMBDA node : node.key = state) = n
  <2>1. {m \in 1..Len(list) : list[m].key = state} = {n} /\ Min({n}) = n
    BY <1>1, <1>2, NodeOf
  <2> QED BY <2>1 DEF SelectInSeq
<1>4. PICK x : x = list[n]
  OBVIOUS
<1>5. x \in AnyNodes(rows) /\ x.key = state /\ Holds(rows, state, x.entries, id - 1)
  <2>1. x \in AnyNodes(rows)
    BY <1>2, <1>4, Elements
  <2> QED BY <1>1, <1>4, <2>1 DEF Filed
<1>6. PICK e : e = Append(x.entries, id)
  OBVIOUS
<1>7. PICK y : y = [x EXCEPT !.entries = e]
  OBVIOUS
<1>8. Holds(rows, state, e, id)
  BY <1>5, <1>6, AppendHolds
<1>9. y \in AnyNodes(rows) /\ y.key = state /\ y.entries = e
  <2>1. e \in Seq(1..Len(rows))
    BY <1>8 DEF Holds
  <2>2. x.key \in RowStates(rows, Len(rows)) \cup {0, STATE_NULL} /\ x = [key |-> x.key, entries |-> x.entries]
    BY <1>5 DEF AnyNodes
  <2>3. y = [key |-> state, entries |-> e]
    BY <1>5, <1>7, <2>2
  <2> QED BY <1>5, <2>1, <2>2, <2>3 DEF AnyNodes
<1>10. PICK new : new = [list EXCEPT ![n] = y]
  OBVIOUS
<1>11. InsertEntry(list, id, state) = new
  BY <1>3, <1>4, <1>6, <1>7, <1>10 DEF InsertEntry
<1>12. /\ new \in Seq(AnyNodes(rows)) /\ DOMAIN new = DOMAIN list /\ Len(new) = Len(list)
       /\ new[n] = y /\ \A m \in DOMAIN list : m # n => new[m] = list[m]
  BY <1>2, <1>9, <1>10
<1>13. \A m \in DOMAIN list : new[m].key = list[m].key
  BY <1>1, <1>9, <1>12
<1>14. 1 \in DOMAIN list
  BY <1>2
<1>15. \A m \in DOMAIN list : Holds(rows, new[m].key, new[m].entries, id)
  <2> TAKE m \in DOMAIN list
  <2>1. CASE m = n
    BY <1>8, <1>9, <1>12, <2>1
  <2>2. CASE m # n
    <3>1. list[m].key # state /\ new[m] = list[m]
      BY <1>1, <1>2, <1>12, <2>2
    <3>2. Holds(rows, list[m].key, list[m].entries, id - 1)
      BY DEF Filed
    <3>3. Holds(rows, list[m].key, list[m].entries, id)
      BY <3>1, <3>2, OtherHolds
    <3> QED BY <3>1, <3>3
  <2> QED BY <2>1, <2>2
<1>16. \A i \in 1..id : rows[i].state # 0 => SearchKey(new, rows[i].state)
  <2> SUFFICES ASSUME NEW i \in 1..id, rows[i].state # 0 PROVE SearchKey(new, rows[i].state)
    OBVIOUS
  <2>1. SearchKey(list, rows[i].state)
    BY DEF Filed
  <2> QED BY <1>12, <1>13, <2>1 DEF SearchKey
<1>17. new[1].key = IF STATE_NULL \in RowStates(rows, id) THEN STATE_NULL ELSE 0
  <2>1. list[1].key = IF STATE_NULL \in RowStates(rows, id) THEN STATE_NULL ELSE 0
    BY DEF Filed
  <2>2. new[1].key = list[1].key
    BY <1>13, <1>14
  <2> QED BY ONLY <2>1, <2>2
<1>18. \A m \in DOMAIN new : new[m].key \in Keys(rows, id)
  BY <1>12, <1>13 DEF Filed
<1>19. \A m, k \in DOMAIN new : new[m].key = new[k].key => m = k
  BY <1>2, <1>12, <1>13
<1>20. Filed(rows, new, id, id)
  BY <1>2, <1>12, <1>15, <1>16, <1>17, <1>18, <1>19 DEF Filed
<1> QED BY <1>11, <1>20

\* The states of one row more.
LEMMA NextStates ==
  ASSUME NEW rows, NEW id \in Nat, id # 0
  PROVE  RowStates(rows, id) = RowStates(rows, id - 1) \cup {rows[id].state}
<1>1. 1..id = 1..(id - 1) \cup {id}
  OBVIOUS
<1> QED BY <1>1 DEF RowStates

\* A row whose state has a node already.
LEMMA KnownFiles ==
  ASSUME NEW rows, Len(rows) \in Nat, NEW id \in 1..Len(rows), NEW list,
         Filed(rows, list, id - 1, id - 1), SearchKey(list, rows[id].state)
  PROVE  Filed(rows, list, id, id - 1)
<1> DEFINE state == rows[id].state
<1>1. RowStates(rows, id) = RowStates(rows, id - 1) \cup {state}
  BY NextStates
<1>2. PICK n \in DOMAIN list : list[n].key = state
  BY DEF SearchKey
<1>3. state \in Keys(rows, id - 1)
  BY <1>2 DEF Filed
<1>4. state = STATE_NULL => STATE_NULL \in RowStates(rows, id - 1)
  BY <1>3 DEF Keys, STATE_NULL
<1>5. STATE_NULL \in RowStates(rows, id) <=> STATE_NULL \in RowStates(rows, id - 1)
  BY <1>1, <1>4
<1>6. Keys(rows, id - 1) \subseteq Keys(rows, id)
  BY <1>1, <1>5 DEF Keys
<1>7. \A i \in 1..id : rows[i].state # 0 => SearchKey(list, rows[i].state)
  <2> SUFFICES ASSUME NEW i \in 1..id, rows[i].state # 0 PROVE SearchKey(list, rows[i].state)
    OBVIOUS
  <2>1. CASE i = id
    BY <2>1
  <2>2. CASE i # id
    <3>1. i \in 1..(id - 1)
      BY <2>2
    <3> QED BY <3>1 DEF Filed
  <2> QED BY <2>1, <2>2
<1>8. list[1].key = IF STATE_NULL \in RowStates(rows, id) THEN STATE_NULL ELSE 0
  <2>1. list[1].key = IF STATE_NULL \in RowStates(rows, id - 1) THEN STATE_NULL ELSE 0
    BY DEF Filed
  <2> QED BY ONLY <1>5, <2>1
<1> QED BY <1>6, <1>7, <1>8 DEF Filed

\* State any takes over the head node.
LEMMA AnyFiles ==
  ASSUME NEW rows, Len(rows) \in Nat, NEW id \in 1..Len(rows), NEW list,
         Filed(rows, list, id - 1, id - 1), ~SearchKey(list, STATE_NULL), rows[id].state = STATE_NULL
  PROVE  Filed(rows, [list EXCEPT ![1].key = STATE_NULL], id, id - 1)
<1>1. RowStates(rows, id) = RowStates(rows, id - 1) \cup {STATE_NULL}
  BY NextStates
<1>2. \A i \in 1..(id - 1) : rows[i].state # STATE_NULL
  BY DEF Filed, STATE_NULL
<1>3. STATE_NULL \notin RowStates(rows, id - 1)
  BY <1>2 DEF RowStates
<1>4. /\ list \in Seq(AnyNodes(rows)) /\ Len(list) # 0 /\ 1 \in DOMAIN list
      /\ \A m, k \in DOMAIN list : list[m].key = list[k].key => m = k
  BY DEF Filed
<1>5. list[1].key = 0 /\ \A m \in DOMAIN list : m # 1 => list[m].key # 0
  <2>1. list[1].key = IF STATE_NULL \in RowStates(rows, id - 1) THEN STATE_NULL ELSE 0
    BY DEF Filed
  <2>2. list[1].key = 0
    BY ONLY <1>3, <2>1
  <2> QED BY <1>4, <2>2
<1>6. PICK x : x = list[1]
  OBVIOUS
<1>7. x \in AnyNodes(rows) /\ Holds(rows, 0, x.entries, id - 1)
  <2>1. x \in AnyNodes(rows)
    BY <1>4, <1>6, Elements
  <2> QED BY <1>4, <1>5, <1>6, <2>1 DEF Filed
<1>8. PICK y : y = [x EXCEPT !.key = STATE_NULL]
  OBVIOUS
<1>9. y \in AnyNodes(rows) /\ y.key = STATE_NULL /\ y.entries = x.entries
  <2>1. x.entries \in Seq(1..Len(rows)) /\ x = [key |-> x.key, entries |-> x.entries]
    BY <1>7 DEF AnyNodes
  <2>2. y = [key |-> STATE_NULL, entries |-> x.entries]
    BY <1>8, <2>1
  <2> QED BY <2>1, <2>2 DEF AnyNodes
<1>10. Holds(rows, STATE_NULL, y.entries, id - 1)
  <2>1. \A a \in DOMAIN x.entries : MayHold(rows, STATE_NULL, x.entries[a])
    BY <1>7 DEF Holds, MayHold, STATE_NULL
  <2>2. \A i \in 1..(id - 1) : ~MustHold(rows, STATE_NULL, i, id - 1)
    BY <1>2 DEF MustHold
  <2> QED BY <1>7, <1>9, <2>1, <2>2 DEF Holds
<1>11. PICK new : new = [list EXCEPT ![1] = y]
  OBVIOUS
<1>12. new = [list EXCEPT ![1].key = STATE_NULL]
  BY <1>6, <1>8, <1>11
<1>13. /\ new \in Seq(AnyNodes(rows)) /\ DOMAIN new = DOMAIN list /\ Len(new) = Len(list)
       /\ new[1] = y /\ \A m \in DOMAIN list : m # 1 => new[m] = list[m]
  BY <1>4, <1>9, <1>11
<1>14. \A m \in DOMAIN list : m # 1 => list[m].key # STATE_NULL
  BY DEF SearchKey
<1>15. \A m, k \in DOMAIN new : new[m].key = new[k].key => m = k
  BY <1>4, <1>9, <1>13, <1>14
<1>16. new[1].key = IF STATE_NULL \in RowStates(rows, id) THEN STATE_NULL ELSE 0
  BY <1>1, <1>9, <1>13
<1>17. \A m \in DOMAIN new : new[m].key \in Keys(rows, id)
  <2> TAKE m \in DOMAIN new
  <2>1. CASE m = 1
    BY <1>1, <1>9, <1>13, <2>1 DEF Keys
  <2>2. CASE m # 1
    <3>1. new[m].key = list[m].key /\ list[m].key # 0 /\ list[m].key \in Keys(rows, id - 1)
      BY <1>5, <1>13, <2>2 DEF Filed
    <3> QED BY <1>1, <3>1 DEF Keys
  <2> QED BY <2>1, <2>2
<1>18. \A i \in 1..id : rows[i].state # 0 => SearchKey(new, rows[i].state)
  <2> SUFFICES ASSUME NEW i \in 1..id, rows[i].state # 0 PROVE SearchKey(new, rows[i].state)
    OBVIOUS
  <2>1. CASE i = id
    BY <1>4, <1>9, <1>13, <2>1 DEF SearchKey
  <2>2. CASE i # id
    <3>1. i \in 1..(id - 1)
      BY <2>2
    <3>2. PICK m \in DOMAIN list : list[m].key = rows[i].state
      BY <3>1 DEF Filed, SearchKey
    <3>3. m # 1
      BY <1>5, <3>2
    <3> QED BY <1>13, <3>2, <3>3 DEF SearchKey
  <2> QED BY <2>1, <2>2
<1>19. \A m \in DOMAIN new : Holds(rows, new[m].key, new[m].entries, id - 1)
  BY <1>9, <1>10, <1>13 DEF Filed
<1>20. Filed(rows, new, id, id - 1)
  BY <1>4, <1>13, <1>15, <1>16, <1>17, <1>18, <1>19 DEF Filed
<1> QED BY <1>12, <1>20

\* A state that is new opens a node at the end; so does state 0 when state any
\* has its node.
LEMMA NewFiles ==
  ASSUME NEW rows, Len(rows) \in Nat, NEW id \in 1..Len(rows), NEW list,
         Filed(rows, list, id - 1, id - 1),
         ~SearchKey(list, rows[id].state), rows[id].state # STATE_NULL
  PROVE  LET new == Append(list, [key |-> rows[id].state, entries |-> << >>])
         IN  Filed(rows, new, id, id - 1) /\ SearchKey(new, rows[id].state)
<1> DEFINE state == rows[id].state
<1>1. RowStates(rows, id) = RowStates(rows, id - 1) \cup {state}
  BY NextStates
<1>2. PICK x : x = [key |-> state, entries |-> << >>]
  OBVIOUS
<1>3. x \in AnyNodes(rows) /\ x.key = state /\ x.entries = << >>
  <2>1. state \in RowStates(rows, Len(rows))
    BY DEF RowStates
  <2> QED BY <1>2, <2>1 DEF AnyNodes
<1>4. PICK new : new = Append(list, x)
  OBVIOUS
<1>5. PICK n : n = Len(list)
  OBVIOUS
<1>6. list \in Seq(AnyNodes(rows)) /\ n # 0
  BY <1>5 DEF Filed
<1>7. /\ new \in Seq(AnyNodes(rows)) /\ n \in Nat /\ DOMAIN list = 1..n
      /\ DOMAIN new = 1..(n + 1) /\ new[n + 1] = x /\ \A m \in 1..n : new[m] = list[m]
  BY <1>3, <1>4, <1>5, <1>6, Appended
<1>8. \A m \in 1..(n + 1) : m \in 1..n \/ m = n + 1
  BY <1>7
<1>9. 1..n \subseteq 1..(n + 1) /\ n + 1 \in 1..(n + 1) /\ 1 \in 1..n
  BY <1>6, <1>7
<1>10. \A m \in 1..n : list[m].key # state
  BY <1>7 DEF SearchKey
<1>11. \A m, k \in DOMAIN new : new[m].key = new[k].key => m = k
  <2> SUFFICES ASSUME NEW m \in 1..(n + 1), NEW k \in 1..(n + 1), new[m].key = new[k].key PROVE m = k
    BY <1>7
  <2>1. CASE m = n + 1 /\ k \in 1..n
    BY <1>3, <1>7, <1>10, <2>1
  <2>2. CASE k = n + 1 /\ m \in 1..n
    BY <1>3, <1>7, <1>10, <2>2
  <2>3. CASE m \in 1..n /\ k \in 1..n
    BY <1>7, <2>3 DEF Filed
  <2> QED BY <1>8, <2>1, <2>2, <2>3
<1>12. STATE_NULL \in RowStates(rows, id) <=> STATE_NULL \in RowStates(rows, id - 1)
  BY <1>1
<1>13. new[1].key = IF STATE_NULL \in RowStates(rows, id) THEN STATE_NULL ELSE 0
  <2>1. list[1].key = IF STATE_NULL \in RowStates(rows, id - 1) THEN STATE_NULL ELSE 0
    BY DEF Filed
  <2>2. new[1] = list[1]
    BY <1>7, <1>9
  <2> QED BY ONLY <1>12, <2>1, <2>2
<1>14. \A m \in DOMAIN new : new[m].key \in Keys(rows, id)
  <2>1. Keys(rows, id - 1) \subseteq Keys(rows, id) /\ state \in Keys(rows, id)
    BY <1>1, <1>12 DEF Keys
  <2>2. \A m \in 1..n : list[m].key \in Keys(rows, id - 1)
    BY <1>7 DEF Filed
  <2> QED BY <1>3, <1>7, <1>8, <2>1, <2>2
<1>15. SearchKey(new, state)
  BY <1>3, <1>7, <1>9 DEF SearchKey
<1>16. \A i \in 1..id : rows[i].state # 0 => SearchKey(new, rows[i].state)
  <2> SUFFICES ASSUME NEW i \in 1..id, rows[i].state # 0 PROVE SearchKey(new, rows[i].state)
    OBVIOUS
  <2>1. CASE i = id
    BY <1>15, <2>1
  <2>2. CASE i # id
    <3>1. i \in 1..(id - 1)
      BY <2>2
    <3>2. PICK m \in DOMAIN list : list[m].key = rows[i].state
      BY <3>1 DEF Filed, SearchKey
    <3> QED BY <1>7, <1>9, <3>2 DEF SearchKey
  <2> QED BY <2>1, <2>2
<1>17. Holds(rows, state, << >>, id - 1)
  <2>1. \A i \in 1..(id - 1) : ~MustHold(rows, state, i, id - 1)
    <3> SUFFICES ASSUME NEW i \in 1..(id - 1), rows[i].state = state,
                        state = 0 => STATE_NULL \notin RowStates(rows, id - 1)
                 PROVE  FALSE
      BY DEF MustHold
    <3>1. CASE state = 0
      <4>1. list[1].key = IF STATE_NULL \in RowStates(rows, id - 1) THEN STATE_NULL ELSE 0
        BY DEF Filed
      <4>2. list[1].key = state
        BY <3>1, <4>1
      <4> QED BY <1>9, <1>10, <4>2
    <3>2. CASE state # 0
      BY <3>2 DEF Filed
    <3> QED BY <3>1, <3>2
  <2> QED BY <2>1 DEF Holds
<1>18. \A m \in DOMAIN new : Holds(rows, new[m].key, new[m].entries, id - 1)
  <2>1. \A m \in 1..n : Holds(rows, list[m].key, list[m].entries, id - 1)
    BY <1>7 DEF Filed
  <2> QED BY <1>3, <1>7, <1>8, <1>17, <2>1
<1>19. Len(new) # 0
  BY <1>7
<1>20. Filed(rows, new, id, id - 1)
  BY <1>7, <1>11, <1>13, <1>14, <1>16, <1>18, <1>19 DEF Filed
<1> QED BY <1>2, <1>4, <1>15, <1>20

\* Whatever its state, a row gets to its node.
LEMMA AddRowFiles ==
  ASSUME NEW rows, Len(rows) \in Nat, NEW id \in 1..Len(rows), NEW list, Filed(rows, list, id - 1, id - 1)
  PROVE  Filed(rows, AddRow(rows, list, id), id, id)
<1> DEFINE state == rows[id].state
<1>1. PICK new : new = IF SearchKey(list, state) THEN list ELSE InsertKey(list, state)
  OBVIOUS
<1>2. AddRow(rows, list, id) = InsertEntry(new, id, state)
  BY <1>1 DEF AddRow
<1>3. Filed(rows, new, id, id - 1) /\ SearchKey(new, state)
  <2>1. CASE SearchKey(list, state)
    BY <1>1, <2>1, KnownFiles
  <2>2. CASE ~SearchKey(list, state) /\ state = STATE_NULL
    <3>1. new = [list EXCEPT ![1].key = STATE_NULL]
      BY <1>1, <2>2 DEF InsertKey
    <3>2. Filed(rows, new, id, id - 1)
      BY <2>2, <3>1, AnyFiles
    <3>3. STATE_NULL # 0
      BY DEF STATE_NULL
    <3>4. SearchKey(new, state)
      BY <2>2, <3>2, <3>3 DEF Filed
    <3> QED BY <3>2, <3>4
  <2>3. CASE ~SearchKey(list, state) /\ state # STATE_NULL
    <3>1. new = Append(list, [key |-> state, entries |-> << >>])
      BY <1>1, <2>3 DEF InsertKey
    <3> QED BY <2>3, <3>1, NewFiles
  <2> QED BY <2>1, <2>2, <2>3
<1> QED BY <1>2, <1>3, InsertFiles

\* KeyList's recursion has a solution: the lists after each row.
LEMMA KeyListUnfolds ==
  ASSUME NEW rows, Len(rows) \in Nat
  PROVE  \E list : /\ KeyList(rows) = list[Len(rows)] /\ list[0] = EmptyKeyList
                   /\ \A i \in 1..Len(rows) : list[i] = AddRow(rows, list[i - 1], i)
<1> DEFINE Steps(g, n) ==
             g = [i \in 0..n |-> IF i = 0 THEN EmptyKeyList ELSE AddRow(rows, g[i - 1], i)]
           S == {n \in Nat : \E g : Steps(g, n)}
<1>1. 0 \in S
  <2>1. [i \in 0..0 |-> EmptyKeyList] =
          [i \in 0..0 |-> IF i = 0 THEN EmptyKeyList
                          ELSE AddRow(rows, [j \in 0..0 |-> EmptyKeyList][i - 1], i)]
    OBVIOUS
  <2>2. Steps([i \in 0..0 |-> EmptyKeyList], 0)
    BY <2>1
  <2> QED BY <2>2
<1>2. ASSUME NEW n \in Nat, n \in S PROVE n + 1 \in S
  <2>1. PICK g : Steps(g, n)
    BY <1>2
  <2> DEFINE h == [i \in 0..(n + 1) |-> IF i = n + 1 THEN AddRow(rows, g[n], n + 1) ELSE g[i]]
  <2>2. \A i \in 0..(n + 1) : h[i] = IF i = 0 THEN EmptyKeyList ELSE AddRow(rows, h[i - 1], i)
    <3> TAKE i \in 0..(n + 1)
    <3>1. CASE i = n + 1
      <4>1. n \in 0..(n + 1) /\ n # n + 1 /\ i - 1 = n
        BY <3>1
      <4>2. h[i - 1] = g[n]
        BY <4>1
      <4> QED BY <3>1, <4>2
    <3>2. CASE i = 0
      <4>1. h[0] = g[0] /\ g[0] = EmptyKeyList
        BY <2>1
      <4> QED BY <3>2, <4>1
    <3>3. CASE i \in 1..n
      <4>1. h[i] = g[i] /\ h[i - 1] = g[i - 1] /\ i \in 0..n /\ i # 0
        BY <3>3
      <4>2. g[i] = AddRow(rows, g[i - 1], i)
        BY <2>1, <4>1
      <4> QED BY <4>1, <4>2
    <3> QED BY <3>1, <3>2, <3>3
  <2>3. h = [i \in 0..(n + 1) |-> h[i]]
    OBVIOUS
  <2> HIDE DEF h
  <2>4. Steps(h, n + 1)
    BY <2>2, <2>3
  <2> QED BY <2>4
<1>3. \E g : Steps(g, Len(rows))
  <2> HIDE DEF Steps
  <2>1. Nat \subseteq S
    BY <1>1, <1>2, Induction
  <2> QED BY <2>1
<1>4. PICK list : list = CHOOSE g : Steps(g, Len(rows))
  OBVIOUS
<1>5. Steps(list, Len(rows))
  BY <1>3, <1>4
<1>6. KeyList(rows) = list[Len(rows)]
  BY <1>4 DEF KeyList
<1>7. list[0] = EmptyKeyList /\ \A i \in 1..Len(rows) : list[i] = AddRow(rows, list[i - 1], i)
  BY <1>5
<1> QED BY <1>6, <1>7

\* The list xfsm_table_create makes of the rows of a program.
LEMMA KeyListFiled ==
  ASSUME NEW rows, Len(rows) \in Nat
  PROVE  Filed(rows, KeyList(rows), Len(rows), Len(rows))
<1>1. PICK list : /\ KeyList(rows) = list[Len(rows)] /\ list[0] = EmptyKeyList
                  /\ \A i \in 1..Len(rows) : list[i] = AddRow(rows, list[i - 1], i)
  BY KeyListUnfolds
<1> DEFINE R == {n \in Nat : n <= Len(rows) => Filed(rows, list[n], n, n)}
<1>2. 0 \in R
  <2>1. PICK x : x = [key |-> 0, entries |-> << >>]
    OBVIOUS
  <2>2. EmptyKeyList = << x >> /\ x.key = 0 /\ x.entries = << >> /\ x \in AnyNodes(rows)
    BY <2>1 DEF EmptyKeyList, AnyNodes
  <2>3. 1..0 = {}
    OBVIOUS
  <2>4. RowStates(rows, 0) = {} /\ Keys(rows, 0) = {0}
    BY <2>3 DEF RowStates, Keys
  <2>5. Holds(rows, 0, x.entries, 0)
    BY <2>2, <2>3 DEF Holds
  <2>6. << x >> \in Seq(AnyNodes(rows)) /\ DOMAIN << x >> = {1} /\ << x >>[1] = x /\ Len(<< x >>) # 0
    BY <2>2
  <2>7. Filed(rows, << x >>, 0, 0)
    BY <2>2, <2>3, <2>4, <2>5, <2>6 DEF Filed
  <2> QED BY <1>1, <2>2, <2>7
<1>3. ASSUME NEW n \in Nat, n \in R PROVE n + 1 \in R
  <2> SUFFICES ASSUME n + 1 <= Len(rows) PROVE Filed(rows, list[n + 1], n + 1, n + 1)
    OBVIOUS
  <2>1. n <= Len(rows) /\ n + 1 \in 1..Len(rows) /\ (n + 1) - 1 = n
    OBVIOUS
  <2>2. Filed(rows, list[n], n, n) /\ list[n + 1] = AddRow(rows, list[n], n + 1)
    BY <1>1, <1>3, <2>1
  <2> QED BY <2>1, <2>2, AddRowFiles
<1>4. Len(rows) \in R
  <2> HIDE DEF R
  <2> QED BY <1>2, <1>3, Induction
<1> QED BY <1>1, <1>4

-----------------------------------------------------------------------------
(* The table                                                               *)

\* There are no more nodes than keys.
LEMMA FewNodes ==
  ASSUME NEW rows, NEW list, NEW keys, NEW upto, Filed(rows, list, keys, upto),
         NEW T, IsFiniteSet(T), Keys(rows, keys) \subseteq T
  PROVE  Len(list) <= Cardinality(T)
<1>1. PICK n : n = Len(list)
  OBVIOUS
<1>2. list \in Seq(AnyNodes(rows)) /\ n \in Nat /\ DOMAIN list = 1..n
  BY <1>1 DEF Filed
<1>3. IsFiniteSet(1..n) /\ Cardinality(1..n) = n
  BY <1>2, FS_Interval
<1>4. Cardinality(T) \in Nat
  BY FS_CardinalityType
<1>5. SUFFICES ASSUME Cardinality(T) < n PROVE FALSE
  BY <1>1, <1>2, <1>4
<1> DEFINE f == [m \in 1..n |-> list[m].key]
<1>6. f \in [1..n -> T]
  BY <1>2 DEF Filed
<1>7. \A k, m \in 1..n : f[k] = f[m] => k = m
  BY <1>2 DEF Filed
<1> HIDE DEF f
<1>8. \E k, m \in 1..n : k # m /\ f[k] = f[m]
  BY <1>3, <1>5, <1>6, FS_PigeonHole
<1> QED BY <1>7, <1>8

\* A node has no more entries than there are rows it may hold.
LEMMA FewEntries ==
  ASSUME NEW rows, Len(rows) \in Nat, NEW key, NEW entries, Holds(rows, key, entries, Len(rows)),
         NEW T, IsFiniteSet(T), T \subseteq Nat,
         \A i \in 1..Len(rows) : MayHold(rows, key, i) => i \in T
  PROVE  Len(entries) <= Cardinality(T)
<1>1. \A a \in DOMAIN entries : entries[a] \in 1..Len(rows) /\ MayHold(rows, key, entries[a])
  BY Elements DEF Holds
<1>2. \A a \in DOMAIN entries : entries[a] \in T
  BY <1>1
<1>3. entries \in Seq(T)
  BY <1>2 DEF Holds
<1> QED BY <1>3, IncreasingFits DEF Holds

\* entries_hmap holds the first k nodes of the list, all of them if there is room.
HeldNodes(rows, list, k) ==
  /\ k <= MaxEntriesForeachState /\ k <= Len(list)
  /\ Len(list) <= MaxEntriesForeachState => k = Len(list)
  /\ DOMAIN EntriesDb(rows) = {list[n].key : n \in 1..k}
  /\ \A n \in 1..k : EntriesDb(rows)[list[n].key] = list[n].entries

LEMMA EntriesAreNodes ==
  ASSUME NEW rows, Len(rows) \in Nat, MaxEntriesForeachState \in Nat
  PROVE  \E k \in Nat : HeldNodes(rows, KeyList(rows), k)
<1>0. PICK list : list = KeyList(rows)
  OBVIOUS
<1>1. /\ list \in Seq(AnyNodes(rows))
      /\ \A m, n \in DOMAIN list : list[m].key = list[n].key => m = n
  BY <1>0, KeyListFiled DEF Filed
<1>2. PICK k \in Nat : k = (IF Len(list) < MaxEntriesForeachState THEN Len(list) ELSE MaxEntriesForeachState)
                       /\ k <= MaxEntriesForeachState /\ k <= Len(list)
                       /\ (Len(list) <= MaxEntriesForeachState => k = Len(list))
  BY <1>1
<1>3. PICK kept : kept = SubSeq(list, 1, k)
  OBVIOUS
<1>4. kept \in Seq(AnyNodes(rows)) /\ DOMAIN kept = 1..k /\ \A n \in 1..k : kept[n] = list[n]
  BY <1>1, <1>2, <1>3
<1>5. EntriesDb(rows) = [s \in {kept[n].key : n \in DOMAIN kept} |->
                           kept[SelectInSeq(kept, LAMBDA node : node.key = s)].entries]
  BY <1>0, <1>2, <1>3 DEF EntriesDb
<1>6. 1..k \subseteq DOMAIN list
  BY <1>1, <1>2
<1>7. DOMAIN EntriesDb(rows) = {list[n].key : n \in 1..k}
  BY <1>4, <1>5
<1>8. ASSUME NEW n \in 1..k PROVE EntriesDb(rows)[list[n].key] = list[n].entries
  <2>1. PICK state : state = list[n].key
    OBVIOUS
  <2>2. n \in DOMAIN kept /\ kept[n].key = state /\ \A m \in DOMAIN kept : kept[m].key = state => m = n
    BY <1>1, <1>4, <1>6, <2>1
  <2>3. {m \in 1..Len(kept) : kept[m].key = state} = {n} /\ Min({n}) = n
    BY ONLY <1>4, <2>2, NodeOf
  <2>4. SelectInSeq(kept, LAMBDA node : node.key = state) = n
    BY <2>3 DEF SelectInSeq
  <2>5. state \in {kept[m].key : m \in DOMAIN kept}
    BY <2>2
  <2>6. EntriesDb(rows)[state] = kept[n].entries
    BY <1>5, <2>4, <2>5
  <2> QED BY <1>4, <2>1, <2>6
<1> QED BY <1>0, <1>2, <1>7, <1>8 DEF HeldNodes

\* There are no more entries than the hash map holds, and none for a state that
\* is not a key.
LEMMA FewStates ==
  ASSUME NEW rows, Len(rows) \in Nat, MaxEntriesForeachState \in Nat
  PROVE  /\ DOMAIN EntriesDb(rows) \subseteq Keys(rows, Len(rows))
         /\ IsFiniteSet(DOMAIN EntriesDb(rows))
         /\ Cardinality(DOMAIN EntriesDb(rows)) \in Nat
         /\ Cardinality(DOMAIN EntriesDb(rows)) <= MaxEntriesForeachState
<1>1. PICK list : list = KeyList(rows)
  OBVIOUS
<1>2. PICK k \in Nat : HeldNodes(rows, list, k)
  BY <1>1, EntriesAreNodes
<1>3. list \in Seq(AnyNodes(rows)) /\ \A n \in DOMAIN list : list[n].key \in Keys(rows, Len(rows))
  BY <1>1, KeyListFiled DEF Filed
<1>4. 1..k \subseteq DOMAIN list
  BY <1>2, <1>3 DEF HeldNodes
<1>5. DOMAIN EntriesDb(rows) \subseteq Keys(rows, Len(rows))
  BY <1>2, <1>3, <1>4 DEF HeldNodes
<1> DEFINE T == {list[n].key : n \in 1..k}
           f == [n \in 1..k |-> list[n].key]
<1>6. f \in Surjection(1..k, T)
  BY DEF Surjection
<1>7. IsFiniteSet(1..k) /\ Cardinality(1..k) = k
  BY FS_Interval
<1> HIDE DEF T, f
<1>8. IsFiniteSet(T) /\ Cardinality(T) <= Cardinality(1..k)
  BY ONLY <1>6, <1>7, FS_Surjection
<1>9. Cardinality(T) \in Nat
  BY <1>8, FS_CardinalityType
<1>10. DOMAIN EntriesDb(rows) = T
  BY <1>2 DEF T, HeldNodes
<1> QED BY <1>2, <1>5, <1>7, <1>8, <1>9, <1>10 DEF HeldNodes

\* As long as all nodes fit, every state but 0 has its entry, and state 0 too
\* unless state any took its node; the entry has what its node has.
LEMMA EntriesHold ==
  ASSUME NEW rows, Len(rows) \in Nat, MaxEntriesForeachState \in Nat,
         NEW T, IsFiniteSet(T), Keys(rows, Len(rows)) \subseteq T,
         Cardinality(T) <= MaxEntriesForeachState
  PROVE  /\ \A s \in DOMAIN EntriesDb(rows) : Holds(rows, s, EntriesDb(rows)[s], Len(rows))
         /\ \A i \in 1..Len(rows) :
              rows[i].state # 0 \/ STATE_NULL \notin RowStates(rows, Len(rows))
              => rows[i].state \in DOMAIN EntriesDb(rows)
         /\ STATE_NULL \notin RowStates(rows, Len(rows)) => 0 \in DOMAIN EntriesDb(rows)
<1>1. PICK list : list = KeyList(rows)
  OBVIOUS
<1>2. Filed(rows, list, Len(rows), Len(rows))
  BY <1>1, KeyListFiled
<1>3. Len(list) <= Cardinality(T) /\ Cardinality(T) \in Nat
  BY <1>2, FewNodes, FS_CardinalityType
<1>4. list \in Seq(AnyNodes(rows)) /\ Len(list) # 0
  BY <1>2 DEF Filed
<1>5. Len(list) <= MaxEntriesForeachState
  BY <1>3, <1>4
<1>6. /\ DOMAIN EntriesDb(rows) = {list[n].key : n \in 1..Len(list)}
      /\ \A n \in 1..Len(list) : EntriesDb(rows)[list[n].key] = list[n].entries
  <2>1. PICK k \in Nat : HeldNodes(rows, list, k)
    BY <1>1, EntriesAreNodes
  <2> QED BY <1>5, <2>1 DEF HeldNodes
<1>7. DOMAIN list = 1..Len(list) /\ 1 \in 1..Len(list)
  BY <1>4
<1>8. ASSUME NEW s \in DOMAIN EntriesDb(rows)
      PROVE  Holds(rows, s, EntriesDb(rows)[s], Len(rows))
  <2>1. PICK n \in 1..Len(list) : s = list[n].key
    BY <1>6
  <2> QED BY <1>2, <1>6, <1>7, <2>1 DEF Filed
<1>9. STATE_NULL \notin RowStates(rows, Len(rows)) => 0 \in DOMAIN EntriesDb(rows)
  <2> SUFFICES ASSUME STATE_NULL \notin RowStates(rows, Len(rows)) PROVE 0 \in DOMAIN EntriesDb(rows)
    OBVIOUS
  <2>1. list[1].key = 0
    BY <1>2 DEF Filed
  <2> QED BY <1>6, <1>7, <2>1
<1>10. ASSUME NEW i \in 1..Len(rows), rows[i].state # 0
       PROVE  rows[i].state \in DOMAIN EntriesDb(rows)
  <2>1. PICK n \in DOMAIN list : list[n].key = rows[i].state
    BY <1>2, <1>10 DEF Filed, SearchKey
  <2> QED BY <1>6, <1>7, <2>1
<1> QED BY <1>8, <1>9, <1>10

\* Whatever the program, the entries of a state are rows.
LEMMA EntriesAreRows ==
  ASSUME NEW rows, Len(rows) \in Nat, MaxEntriesForeachState \in Nat
  PROVE  \A s \in DOMAIN EntriesDb(rows) : EntriesDb(rows)[s] \in Seq(1..Len(rows))
<1>1. PICK list : list = KeyList(rows)
  OBVIOUS
<1>2. Filed(rows, list, Len(rows), Len(rows))
  BY <1>1, KeyListFiled
<1>3. PICK k \in Nat : HeldNodes(rows, list, k)
  BY <1>1, EntriesAreNodes
<1>4. 1..k \subseteq DOMAIN list
  BY <1>2, <1>3 DEF Filed, HeldNodes
<1>5. \A n \in 1..k : list[n].entries \in Seq(1..Len(rows))
  BY <1>2, <1>4 DEF Filed, Holds
<1> QED BY <1>3, <1>5 DEF HeldNodes

LEMMA FiniteStates == ASSUME NEW rows, NEW upto \in Nat PROVE IsFiniteSet(RowStates(rows, upto))
<1> DEFINE f == [i \in 1..upto |-> rows[i].state]
<1>1. IsFiniteSet(1..upto)
  BY FS_Interval
<1>2. f \in Surjection(1..upto, RowStates(rows, upto))
  BY DEF Surjection, RowStates
<1> HIDE DEF f
<1> QED BY ONLY <1>1, <1>2, FS_Surjection
=============================================================================
