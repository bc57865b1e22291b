-------------------------- MODULE IdleConnsProofs --------------------------
(***************************************************************************)
(* IdleConns for any connections, any numbers of idle seconds and any time: *)
(* callIdles calls back the connections that have been idle, and no others. *)
(*                                                                          *)
(* The argument: updateIdle keeps each list in the order of its times, one  *)
(* node for each registration, with the second the connection was last      *)
(* heard of.  callIdles walks a copy; what it has marked has the time of    *)
(* the walk and is behind everything it still has to look at, so that the   *)
(* first node that is not idle says that none behind it is.                 *)
(***************************************************************************)
EXTENDS IdleConns, WellFoundedInduction, TLAPS

Nodes == [con : Conns, updated : Nat]
NodesOf(lst) == {lst[k] : k \in 1..Len(lst)}
Sorted(lst) == \A j, k \in 1..Len(lst) : j < k => lst[j].updated <= lst[k].updated
Distinct(lst) == \A j, k \in 1..Len(lst) : j < k => lst[j].con # lst[k].con

Walks == [at : Nat, todo : SUBSET Idles, idle : Idles \cup {0}, copy : Seq(Nodes)]

TypeOK ==
  /\ now \in Nat
  /\ lists \in [Idles -> Seq(Nodes)]
  /\ ids \in [Conns -> SUBSET Idles]
  /\ heard \in [Conns -> [Idles -> Nat]]
  /\ walk \in Walks
  /\ called \subseteq Conns \X Idles

\* Nobody was heard of in the future, nor since the walk began.
HeardInv == \A c \in Conns, i \in Idles : heard[c][i] <= now /\ (~Free => heard[c][i] <= walk.at)

\* idleConns_: in order, and a node for each registration.
ListsInv ==
  \A i \in Idles :
    /\ Sorted(lists[i]) /\ Distinct(lists[i])
    /\ \A n \in Nodes : n \in NodesOf(lists[i]) <=>
         i \in ids[n.con] /\ n.updated = heard[n.con][i]

\* The copy: in order, what is not marked is as it was, what is marked has
\* been called, and who is registered has been called or is still there.
WalkInv ==
  /\ Sorted(walk.copy)
  /\ walk.idle = 0 => walk.copy = <<>>
  /\ walk.idle # 0 =>
       /\ \A n \in NodesOf(walk.copy) :
            \/ n.updated = walk.at
            \/ n.updated < walk.at /\ n.updated = heard[n.con][walk.idle]
       /\ \A c \in Conns : walk.idle \in ids[c] =>
            <<c, walk.idle>> \in called \/ Node(c, heard[c][walk.idle]) \in NodesOf(walk.copy)

IdleInv == TypeOK /\ HeardInv /\ ListsInv /\ WalkInv /\ OnlyIdleAreCalled

-----------------------------------------------------------------------------
(* The lists.                                                               *)

\* erase(iter_) of a list with one node per connection: the node goes, the
\* others stay in their order.
LEMMA WithoutNode ==
  ASSUME NEW c \in Conns, NEW lst \in Seq(Nodes), Sorted(lst), Distinct(lst)
  PROVE  /\ Without(c, lst) \in Seq(Nodes)
         /\ Sorted(Without(c, lst)) /\ Distinct(Without(c, lst))
         /\ NodesOf(Without(c, lst)) = {n \in NodesOf(lst) : n.con # c}
<1>1. CASE \E k \in DOMAIN lst : lst[k].con = c
  <2> DEFINE iter == CHOOSE k \in DOMAIN lst : lst[k].con = c
             new == Without(c, lst)
  <2>1. iter \in 1..Len(lst) /\ lst[iter].con = c /\ Len(lst) \in Nat
    BY <1>1
  <2>2. new = [k \in 1..(Len(lst) - 1) |-> lst[IF k < iter THEN k ELSE k + 1]]
    BY <1>1 DEF Without
  <2> HIDE DEF iter, new
  <2>3. \A k \in 1..Len(lst) : lst[k] \in Nodes
    OBVIOUS
  <2>4. Len(lst) - 1 \in Nat
    BY <2>1
  <2>5. new \in Seq(Nodes) /\ Len(new) = Len(lst) - 1
    BY <2>1, <2>2, <2>3, <2>4
  <2>6. \A k \in 1..Len(new) : IF k < iter THEN new[k] = lst[k] ELSE new[k] = lst[k + 1]
    BY <2>2, <2>5
  <2>7. ASSUME NEW j \in 1..Len(new), NEW k \in 1..Len(new), j < k
        PROVE  \E a, b \in 1..Len(lst) : a < b /\ new[j] = lst[a] /\ new[k] = lst[b]
    <3>1. j \in 1..Len(lst) /\ k \in 1..Len(lst) /\ j + 1 \in 1..Len(lst) /\ k + 1 \in 1..Len(lst)
      BY <2>1, <2>5
    <3>2. CASE k < iter
      BY <2>1, <2>6, <2>7, <3>1, <3>2
    <3>3. CASE j < iter /\ ~(k < iter)
      <4>1. new[j] = lst[j] /\ new[k] = lst[k + 1] /\ j < k + 1
        BY <2>6, <2>7, <3>3
      <4> QED
        BY <3>1, <4>1
    <3>4. CASE ~(j < iter) /\ ~(k < iter)
      <4>1. new[j] = lst[j + 1] /\ new[k] = lst[k + 1] /\ j + 1 < k + 1
        BY <2>6, <2>7, <3>4
      <4> QED
        BY <3>1, <4>1
    <3> QED
      BY <2>1, <2>7, <3>2, <3>3, <3>4
  <2>8. Sorted(new) /\ Distinct(new)
    <3> SUFFICES ASSUME NEW j \in 1..Len(new), NEW k \in 1..Len(new), j < k
                 PROVE  new[j].updated <= new[k].updated /\ new[j].con # new[k].con
      BY DEF Sorted, Distinct
    <3>1. PICK a \in 1..Len(lst), b \in 1..Len(lst) :
            a < b /\ new[j] = lst[a] /\ new[k] = lst[b]
      BY <2>7
    <3> QED
      BY <3>1 DEF Sorted, Distinct
  <2>9. ASSUME NEW n \in NodesOf(new) PROVE n \in NodesOf(lst) /\ n.con # c
    <3>1. PICK k \in 1..Len(new) : n = new[k]
      BY <2>9 DEF NodesOf
    <3>2. PICK m \in 1..Len(lst) : n = lst[m] /\ m # iter
      BY <2>1, <2>5, <2>6, <3>1
    <3> QED
      BY <2>1, <3>2 DEF NodesOf, Distinct
  <2>10. ASSUME NEW n \in NodesOf(lst), n.con # c PROVE n \in NodesOf(new)
    <3>1. PICK k \in 1..Len(lst) : n = lst[k]
      BY <2>10 DEF NodesOf
    <3>2. k # iter
      BY <2>1, <2>10, <3>1
    <3>3. CASE k < iter
      BY <2>1, <2>5, <2>6, <3>1, <3>3 DEF NodesOf
    <3>4. CASE k > iter
      <4>1. k - 1 \in 1..Len(new) /\ ~(k - 1 < iter) /\ (k - 1) + 1 = k
        BY <2>1, <2>5, <3>4
      <4>2. new[k - 1] = n
        BY <2>6, <3>1, <4>1
      <4> QED
        BY <4>1, <4>2 DEF NodesOf
    <3> QED
      BY <2>1, <3>2, <3>3, <3>4
  <2> QED
    BY <2>5, <2>8, <2>9, <2>10 DEF new
<1>2. CASE ~\E k \in DOMAIN lst : lst[k].con = c
  <2>1. Without(c, lst) = lst
    BY <1>2 DEF Without
  <2>2. \A n \in NodesOf(lst) : n.con # c
    BY <1>2 DEF NodesOf
  <2> QED
    BY <2>1, <2>2
<1> QED
  BY <1>1, <1>2

\* push_back of a node that is no older than the others keeps the order.
LEMMA AppendNode ==
  ASSUME NEW lst \in Seq(Nodes), Sorted(lst), NEW n \in Nodes,
         \A m \in NodesOf(lst) : m.updated <= n.updated
  PROVE  /\ Append(lst, n) \in Seq(Nodes) /\ Sorted(Append(lst, n))
         /\ NodesOf(Append(lst, n)) = NodesOf(lst) \cup {n}
         /\ Distinct(lst) /\ (\A m \in NodesOf(lst) : m.con # n.con) => Distinct(Append(lst, n))
<1> DEFINE new == Append(lst, n)
<1>1. /\ new \in Seq(Nodes) /\ Len(new) = Len(lst) + 1 /\ new[Len(lst) + 1] = n
      /\ \A k \in 1..Len(lst) : new[k] = lst[k]
      /\ Len(lst) \in Nat
  OBVIOUS
<1> HIDE DEF new
<1>2. NodesOf(new) = NodesOf(lst) \cup {n}
  <2>1. \A k \in 1..Len(new) : k \in 1..Len(lst) \/ k = Len(lst) + 1
    BY <1>1
  <2>2. \A k \in 1..Len(lst) : k \in 1..Len(new)
    BY <1>1
  <2>3. Len(lst) + 1 \in 1..Len(new)
    BY <1>1
  <2> QED
    BY <1>1, <2>1, <2>2, <2>3 DEF NodesOf
<1>3. Sorted(new)
  BY <1>1 DEF Sorted, NodesOf
<1>4. ASSUME Distinct(lst), \A m \in NodesOf(lst) : m.con # n.con PROVE Distinct(new)
  BY <1>1, <1>4 DEF Distinct, NodesOf
<1> QED
  BY <1>1, <1>2, <1>3, <1>4 DEF new

\* The front of a list and what is behind it.
LEMMA TailNodes ==
  ASSUME NEW lst \in Seq(Nodes), lst # <<>>, Sorted(lst)
  PROVE  /\ Head(lst) \in NodesOf(lst) /\ Head(lst) \in Nodes
         /\ Tail(lst) \in Seq(Nodes) /\ Sorted(Tail(lst))
         /\ NodesOf(lst) = {Head(lst)} \cup NodesOf(Tail(lst))
         /\ \A n \in NodesOf(lst) : Head(lst).updated <= n.updated
<1> DEFINE new == Tail(lst)
<1>1. /\ new \in Seq(Nodes) /\ Len(new) = Len(lst) - 1
      /\ \A k \in 1..Len(new) : new[k] = lst[k + 1]
      /\ Len(lst) \in Nat /\ Len(lst) >= 1 /\ Head(lst) = lst[1]
  OBVIOUS
<1>2. \A k \in 1..Len(lst) : lst[k] \in Nodes
  OBVIOUS
<1> HIDE DEF new
<1>3. NodesOf(lst) = {lst[1]} \cup NodesOf(new)
  <2>1. ASSUME NEW k \in 1..Len(lst), k # 1 PROVE lst[k] \in NodesOf(new)
    <3>1. k - 1 \in 1..Len(new) /\ (k - 1) + 1 = k
      BY <1>1, <2>1
    <3>2. new[k - 1] = lst[k]
      BY <1>1, <3>1
    <3> QED
      BY <3>1, <3>2 DEF NodesOf
  <2>2. \A k \in 1..Len(new) : new[k] \in NodesOf(lst)
    <3>1. \A k \in 1..Len(new) : k + 1 \in 1..Len(lst)
      BY <1>1
    <3> QED
      BY <1>1, <3>1 DEF NodesOf
  <2>3. 1 \in 1..Len(lst)
    BY <1>1
  <2> QED
    BY <2>1, <2>2, <2>3 DEF NodesOf
<1>4. Sorted(new)
  BY <1>1 DEF Sorted
<1>5. \A n \in NodesOf(lst) : lst[1].updated <= n.updated
  <2>1. \A k \in 1..Len(lst) : k # 1 => lst[1].updated <= lst[k].updated
    BY <1>1 DEF Sorted
  <2>2. lst[1].updated \in Nat
    BY <1>1, <1>2 DEF Nodes
  <2> QED
    BY <2>1, <2>2 DEF NodesOf
<1> QED
  BY <1>1, <1>2, <1>3, <1>4, <1>5 DEF new

-----------------------------------------------------------------------------
(* The invariant, action by action.                                         *)

\* A set of naturals has a least member.
LEMMA LeastNat ==
  ASSUME NEW S, S \subseteq Nat, S # {}
  PROVE  \E m \in S : \A n \in S : m <= n
<1>1. PICK m \in S : \A n \in S : <<n, m>> \notin OpToRel(<, Nat)
  BY NatLessThanWellFounded, WFMin
<1>2. \A n \in S : ~(n < m)
  BY <1>1 DEF OpToRel
<1> QED
  BY <1>2

\* Outside callIdles there is no list and no copy.
LEMMA NoWalkFields ==
  NoWalk \in Walks /\ NoWalk.idle = 0 /\ NoWalk.copy = <<>>
<1>1. <<>> \in Seq(Nodes)
  OBVIOUS
<1> QED
  BY <1>1 DEF NoWalk, Walks

\* A node carries its connection and its second.
LEMMA NodeFields ==
  ASSUME NEW c \in Conns, NEW t \in Nat
  PROVE  /\ Node(c, t) \in Nodes /\ Node(c, t).con = c /\ Node(c, t).updated = t
         /\ \A n \in Nodes : n.con = c /\ n.updated = t => n = Node(c, t)
  BY DEF Node, Nodes

\* No connection is registered to begin with.
LEMMA IdleInitInv == Init => IdleInv
<1> SUFFICES ASSUME Init PROVE IdleInv
  OBVIOUS
<1>1. <<>> \in Seq(Nodes) /\ Len(<<>>) = 0
  OBVIOUS
<1>2. walk = NoWalk /\ \A i \in Idles : lists[i] = <<>>
  BY DEF Init
<1>3. TypeOK
  BY <1>1, <1>2, NoWalkFields DEF Init, TypeOK
<1>4. HeardInv
  BY <1>2 DEF Init, HeardInv, Free
<1>5. ListsInv
  <2>1. NodesOf(<<>>) = {} /\ Sorted(<<>>) /\ Distinct(<<>>)
    BY <1>1 DEF NodesOf, Sorted, Distinct
  <2>2. \A n \in Nodes : n.con \in Conns
    BY DEF Nodes
  <2> QED
    BY <1>2, <2>1, <2>2 DEF ListsInv, Init
<1>6. WalkInv
  BY <1>1, <1>2, NoWalkFields DEF WalkInv, Sorted
<1>7. OnlyIdleAreCalled
  BY <1>2 DEF OnlyIdleAreCalled, Free
<1> QED
  BY <1>3, <1>4, <1>5, <1>6, <1>7 DEF IdleInv

\* Outside callIdles only the lists and the times are at stake.
LEMMA FreeStep ==
  ASSUME IdleInv, Free, UNCHANGED <<now, walk, called>>,
         lists' \in [Idles -> Seq(Nodes)], ids' \in [Conns -> SUBSET Idles],
         heard' \in [Conns -> [Idles -> Nat]],
         \A c \in Conns, i \in Idles : heard'[c][i] <= now,
         ListsInv'
  PROVE  IdleInv'
<1>1. TypeOK'
  BY DEF IdleInv, TypeOK
<1>2. Free'
  BY DEF Free
<1>3. HeardInv' /\ OnlyIdleAreCalled'
  BY <1>2 DEF HeardInv, OnlyIdleAreCalled
<1>4. walk' = NoWalk
  BY <1>2 DEF Free
<1>5. WalkInv'
  <2>1. Sorted(<<>>)
    BY DEF Sorted
  <2> QED
    BY <1>4, <2>1, NoWalkFields DEF WalkInv
<1> QED
  BY <1>1, <1>3, <1>5 DEF IdleInv

\* addIdleCB keeps the invariant: the new node is the youngest of its list.
LEMMA AddInv ==
  ASSUME IdleInv, NEW c \in Conns, NEW i \in Idles, AddIdleCB(c, i) PROVE IdleInv'
<1> DEFINE n0 == Node(c, now)
<1>1. /\ Free /\ i \notin ids[c] /\ UNCHANGED <<now, walk, called>>
      /\ lists' = [lists EXCEPT ![i] = Append(lists[i], n0)]
      /\ ids' = [ids EXCEPT ![c] = @ \cup {i}]
      /\ heard' = [heard EXCEPT ![c][i] = now]
  BY DEF AddIdleCB, RegisterIdle
<1>2. /\ now \in Nat /\ lists \in [Idles -> Seq(Nodes)] /\ ids \in [Conns -> SUBSET Idles]
      /\ heard \in [Conns -> [Idles -> Nat]]
  BY DEF IdleInv, TypeOK
<1>3. n0 \in Nodes /\ n0.con = c /\ n0.updated = now
      /\ \A n \in Nodes : n.con = c /\ n.updated = now => n = n0
  BY <1>2, NodeFields
<1> HIDE DEF n0
<1>4. \A n \in NodesOf(lists[i]) : n \in Nodes
  BY <1>2 DEF NodesOf
<1>5. \A n \in NodesOf(lists[i]) : n.con # c /\ n.updated <= n0.updated
  BY <1>1, <1>3, <1>4 DEF IdleInv, ListsInv, HeardInv, Nodes
<1>6. /\ Append(lists[i], n0) \in Seq(Nodes) /\ Sorted(Append(lists[i], n0))
      /\ NodesOf(Append(lists[i], n0)) = NodesOf(lists[i]) \cup {n0}
      /\ Distinct(Append(lists[i], n0))
  BY <1>2, <1>3, <1>5, AppendNode DEF IdleInv, ListsInv
<1>7. lists'[i] = Append(lists[i], n0) /\ \A j \in Idles : j # i => lists'[j] = lists[j]
  BY <1>1, <1>2
<1>8. /\ ids' \in [Conns -> SUBSET Idles]
      /\ \A d \in Conns, j \in Idles : j \in ids'[d] <=> (j \in ids[d] \/ (d = c /\ j = i))
  BY <1>1, <1>2
<1>9. /\ heard' \in [Conns -> [Idles -> Nat]] /\ heard'[c][i] = now
      /\ \A d \in Conns, j \in Idles : d # c \/ j # i => heard'[d][j] = heard[d][j]
  BY <1>1, <1>2
<1>10. ListsInv'
  <2>1. ASSUME NEW j \in Idles, j # i
        PROVE  /\ Sorted(lists'[j]) /\ Distinct(lists'[j])
               /\ \A n \in Nodes : n \in NodesOf(lists'[j]) <=>
                    j \in ids'[n.con] /\ n.updated = heard'[n.con][j]
    BY <1>7, <1>8, <1>9, <2>1 DEF IdleInv, ListsInv, Nodes
  <2>2. ASSUME NEW n \in Nodes
        PROVE  n \in NodesOf(lists'[i]) <=> i \in ids'[n.con] /\ n.updated = heard'[n.con][i]
    <3>1. n.con \in Conns
      BY DEF Nodes
    <3>2. CASE n.con = c
      <4>1. i \in ids'[n.con] /\ heard'[n.con][i] = now
        BY <1>8, <1>9, <3>2
      <4>2. n \in NodesOf(lists'[i]) <=> n \in NodesOf(lists[i]) \/ n = n0
        BY <1>6, <1>7
      <4>3. n \notin NodesOf(lists[i])
        BY <1>5, <3>2
      <4> QED
        BY <1>3, <3>2, <4>1, <4>2, <4>3
    <3>3. CASE n.con # c
      <4>1. (i \in ids'[n.con] <=> i \in ids[n.con]) /\ heard'[n.con][i] = heard[n.con][i]
        BY <1>8, <1>9, <3>1, <3>3
      <4>2. n \in NodesOf(lists'[i]) <=> n \in NodesOf(lists[i])
        BY <1>3, <1>6, <1>7, <3>3
      <4> QED
        BY <4>1, <4>2 DEF IdleInv, ListsInv
    <3> QED
      BY <3>2, <3>3
  <2>3. Sorted(lists'[i]) /\ Distinct(lists'[i])
    BY <1>6, <1>7
  <2> QED
    BY <2>1, <2>2, <2>3 DEF ListsInv
<1>11. lists' \in [Idles -> Seq(Nodes)]
  BY <1>1, <1>2, <1>6
<1>12. \A d \in Conns, j \in Idles : heard'[d][j] <= now
  BY <1>2, <1>9 DEF IdleInv, HeardInv
<1> QED
  BY <1>1, <1>8, <1>9, <1>10, <1>11, <1>12, FreeStep

\* handleRead keeps the invariant: in each list the connection is registered
\* in, its node becomes the youngest.
LEMMA ReadInv ==
  ASSUME IdleInv, NEW c \in Conns, HandleRead(c) PROVE IdleInv'
<1> DEFINE n0 == Node(c, now)
<1>1. /\ Free /\ UNCHANGED <<now, walk, called, ids>>
      /\ lists' = [i \in Idles |-> IF i \in ids[c] THEN UpdateIdle(lists[i], c) ELSE lists[i]]
      /\ heard' = [heard EXCEPT ![c] = [i \in Idles |-> now]]
  BY DEF HandleRead
<1>2. /\ now \in Nat /\ lists \in [Idles -> Seq(Nodes)] /\ ids \in [Conns -> SUBSET Idles]
      /\ heard \in [Conns -> [Idles -> Nat]]
  BY DEF IdleInv, TypeOK
<1>3. n0 \in Nodes /\ n0.con = c /\ n0.updated = now
      /\ \A n \in Nodes : n.con = c /\ n.updated = now => n = n0
  BY <1>2, NodeFields
<1>4. /\ heard' \in [Conns -> [Idles -> Nat]] /\ \A j \in Idles : heard'[c][j] = now
      /\ \A d \in Conns, j \in Idles : d # c => heard'[d][j] = heard[d][j]
  BY <1>1, <1>2
<1>5. ASSUME NEW i \in Idles, i \in ids[c]
      PROVE  /\ lists'[i] \in Seq(Nodes) /\ Sorted(lists'[i]) /\ Distinct(lists'[i])
             /\ NodesOf(lists'[i]) = {n \in NodesOf(lists[i]) : n.con # c} \cup {n0}
  <2> DEFINE rest == Without(c, lists[i])
  <2>1. Node(c, heard[c][i]) \in NodesOf(lists[i])
    <3>1. heard[c][i] \in Nat
      BY <1>2
    <3> QED
      BY <1>5, <3>1, NodeFields DEF IdleInv, ListsInv
  <2>2. Node(c, heard[c][i]).con = c
    BY <1>2, NodeFields
  <2>3. \E k \in DOMAIN lists[i] : lists[i][k].con = c
    BY <1>2, <2>1, <2>2 DEF NodesOf
  <2>4. lists'[i] = Append(rest, n0)
    BY <1>1, <1>5, <2>3 DEF UpdateIdle
  <2>5. lists[i] \in Seq(Nodes) /\ Sorted(lists[i]) /\ Distinct(lists[i])
    BY <1>2 DEF IdleInv, ListsInv
  <2>6. /\ rest \in Seq(Nodes) /\ Sorted(rest) /\ Distinct(rest)
        /\ NodesOf(rest) = {n \in NodesOf(lists[i]) : n.con # c}
    BY <2>5, WithoutNode
  <2>7. \A n \in NodesOf(lists[i]) : n \in Nodes
    BY <1>2 DEF NodesOf
  <2> HIDE DEF rest, n0
  <2>8. \A n \in NodesOf(rest) : n.con # n0.con /\ n.updated <= n0.updated
    BY <1>3, <2>6, <2>7 DEF IdleInv, ListsInv, HeardInv, Nodes
  <2> QED
    BY <1>3, <2>4, <2>6, <2>8, AppendNode
<1> HIDE DEF n0
<1>6. \A i \in Idles : i \notin ids[c] => lists'[i] = lists[i]
  BY <1>1
<1>7. ListsInv'
  <2>1. ASSUME NEW i \in Idles, i \in ids[c], NEW n \in Nodes
        PROVE  n \in NodesOf(lists'[i]) <=> i \in ids'[n.con] /\ n.updated = heard'[n.con][i]
    <3>1. n.con \in Conns
      BY DEF Nodes
    <3>2. CASE n.con = c
      BY <1>1, <1>3, <1>4, <1>5, <2>1, <3>2
    <3>3. CASE n.con # c
      BY <1>1, <1>3, <1>4, <1>5, <2>1, <3>1, <3>3 DEF IdleInv, ListsInv
    <3> QED
      BY <3>2, <3>3
  <2>2. ASSUME NEW i \in Idles, i \notin ids[c], NEW n \in Nodes
        PROVE  n \in NodesOf(lists'[i]) <=> i \in ids'[n.con] /\ n.updated = heard'[n.con][i]
    BY <1>1, <1>4, <1>6, <2>2 DEF IdleInv, ListsInv, Nodes
  <2>3. \A i \in Idles : Sorted(lists'[i]) /\ Distinct(lists'[i])
    BY <1>5, <1>6 DEF IdleInv, ListsInv
  <2> QED
    BY <2>1, <2>2, <2>3 DEF ListsInv
<1>8. lists' \in [Idles -> Seq(Nodes)]
  <2>1. \A i \in Idles : lists'[i] \in Seq(Nodes)
    BY <1>2, <1>5, <1>6
  <2> QED
    BY <1>1, <2>1
<1>9. \A d \in Conns, j \in Idles : heard'[d][j] <= now
  <2>1. \A j \in Idles : heard'[c][j] <= now
    BY <1>2, <1>4
  <2>2. \A d \in Conns, j \in Idles : d # c => heard'[d][j] <= now
    BY <1>4 DEF IdleInv, HeardInv
  <2> QED
    BY <2>1, <2>2
<1> QED
  BY <1>1, <1>2, <1>4, <1>7, <1>8, <1>9, FreeStep

\* cleanup: the connection's nodes go with its registrations, or all stay.
LEMMA CleanupLists ==
  ASSUME TypeOK, ListsInv, NEW c \in Conns, Cleanup(c), heard' = heard
  PROVE  /\ lists' \in [Idles -> Seq(Nodes)] /\ ids' \in [Conns -> SUBSET Idles]
         /\ ListsInv'
         /\ \A d \in Conns : ids'[d] \subseteq ids[d]
<1>1. /\ lists \in [Idles -> Seq(Nodes)] /\ ids \in [Conns -> SUBSET Idles]
      /\ heard \in [Conns -> [Idles -> Nat]]
  BY DEF TypeOK
<1>2. CASE UNCHANGED <<lists, ids>>
  BY <1>1, <1>2 DEF ListsInv
<1>3. CASE /\ lists' = [i \in Idles |-> Without(c, lists[i])]
           /\ ids' = [ids EXCEPT ![c] = {}]
  <2>1. ids' \in [Conns -> SUBSET Idles] /\ ids'[c] = {} /\ \A d \in Conns : d # c => ids'[d] = ids[d]
    BY <1>1, <1>3
  <2>2. ASSUME NEW i \in Idles
        PROVE  /\ lists'[i] \in Seq(Nodes) /\ Sorted(lists'[i]) /\ Distinct(lists'[i])
               /\ NodesOf(lists'[i]) = {n \in NodesOf(lists[i]) : n.con # c}
    <3>1. lists[i] \in Seq(Nodes) /\ Sorted(lists[i]) /\ Distinct(lists[i])
      BY <1>1 DEF ListsInv
    <3>2. lists'[i] = Without(c, lists[i])
      BY <1>3
    <3> QED
      BY <3>1, <3>2, WithoutNode
  <2>3. ASSUME NEW i \in Idles, NEW n \in Nodes
        PROVE  n \in NodesOf(lists'[i]) <=> i \in ids'[n.con] /\ n.updated = heard'[n.con][i]
    <3>1. n.con \in Conns
      BY DEF Nodes
    <3>2. n \in NodesOf(lists'[i]) <=> n \in NodesOf(lists[i]) /\ n.con # c
      BY <2>2
    <3>3. i \in ids'[n.con] <=> i \in ids[n.con] /\ n.con # c
      BY <2>1, <3>1
    <3> QED
      BY <3>2, <3>3 DEF ListsInv
  <2>4. ListsInv'
    BY <2>2, <2>3 DEF ListsInv
  <2>5. lists' \in [Idles -> Seq(Nodes)]
    BY <1>3, <2>2
  <2> QED
    BY <2>1, <2>4, <2>5
<1> QED
  BY <1>2, <1>3 DEF Cleanup

\* The end of a connection outside callIdles keeps the invariant.
LEMMA EndsInv ==
  ASSUME IdleInv, NEW c \in Conns, Ends(c) PROVE IdleInv'
<1>1. Free /\ Cleanup(c) /\ UNCHANGED <<now, walk, called, heard>>
  BY DEF Ends
<1>2. /\ lists' \in [Idles -> Seq(Nodes)] /\ ids' \in [Conns -> SUBSET Idles] /\ ListsInv'
  BY <1>1, CleanupLists DEF IdleInv
<1>3. heard' \in [Conns -> [Idles -> Nat]] /\ \A d \in Conns, i \in Idles : heard'[d][i] <= now
  BY <1>1 DEF IdleInv, TypeOK, HeardInv
<1> QED
  BY <1>1, <1>2, <1>3, FreeStep

\* Steps that change neither lists nor walk: the clock, and a connection that
\* opens or whose close() comes too late.
LEMMA SameLists ==
  ASSUME IdleInv, UNCHANGED <<lists, ids, heard, walk, called>>, now' \in Nat, now <= now'
  PROVE  IdleInv'
<1>1. TypeOK' /\ ListsInv' /\ WalkInv'
  BY DEF IdleInv, TypeOK, ListsInv, WalkInv
<1>2. Free' = Free
  BY DEF Free
<1>3. HeardInv'
  BY <1>2 DEF IdleInv, HeardInv, TypeOK
<1>4. OnlyIdleAreCalled'
  BY <1>2 DEF IdleInv, OnlyIdleAreCalled
<1> QED
  BY <1>1, <1>3, <1>4 DEF IdleInv

\* callIdles begins: nothing is called yet, and all that was heard was heard
\* by now.
LEMMA CallIdlesInv == ASSUME IdleInv, CallIdles PROVE IdleInv'
<1>1. /\ walk' = [NoWalk EXCEPT !.at = now, !.todo = Idles] /\ called' = {}
      /\ UNCHANGED <<now, lists, ids, heard>> /\ now \in Nat
  BY DEF CallIdles, conns, IdleInv, TypeOK
<1>2. walk' \in Walks /\ walk'.at = now /\ walk'.idle = 0 /\ walk'.copy = <<>>
  BY <1>1, NoWalkFields DEF Walks
<1>3. TypeOK' /\ ListsInv'
  BY <1>1, <1>2 DEF IdleInv, TypeOK, ListsInv
<1>4. HeardInv'
  BY <1>1, <1>2 DEF IdleInv, HeardInv
<1>5. WalkInv'
  BY <1>2 DEF WalkInv, Sorted
<1>6. OnlyIdleAreCalled'
  BY <1>1 DEF OnlyIdleAreCalled
<1> QED
  BY <1>3, <1>4, <1>5, <1>6 DEF IdleInv

\* The next list is copied: its order and its nodes are the list's.
LEMMA NextListInv == ASSUME IdleInv, NextList PROVE IdleInv'
<1> DEFINE i == CHOOSE i \in walk.todo : \A j \in walk.todo : i <= j
<1>1. /\ ~Free /\ walk.todo # {} /\ walk' = [walk EXCEPT !.todo = @ \ {i}, !.idle = i, !.copy = lists[i]]
      /\ UNCHANGED <<now, called, lists, ids, heard>>
  BY DEF NextList, conns
<1>2. /\ walk \in Walks /\ walk.todo \subseteq Idles
      /\ lists \in [Idles -> Seq(Nodes)] /\ ids \in [Conns -> SUBSET Idles]
      /\ heard \in [Conns -> [Idles -> Nat]]
  BY DEF IdleInv, TypeOK, Walks
<1>3. i \in walk.todo
  BY <1>1, <1>2, LeastNat, IdleAssumption
<1> HIDE DEF i
<1>4. i \in Idles /\ i # 0
  BY <1>2, <1>3, IdleAssumption
<1>5. walk' \in Walks /\ walk'.at = walk.at /\ walk'.idle = i /\ walk'.copy = lists[i]
  BY <1>1, <1>2, <1>4 DEF Walks
<1>6. TypeOK' /\ ListsInv'
  BY <1>1, <1>5 DEF IdleInv, TypeOK, ListsInv
<1>7. HeardInv' /\ OnlyIdleAreCalled'
  BY <1>1, <1>5 DEF IdleInv, HeardInv, OnlyIdleAreCalled
<1>8. WalkInv'
  <2>1. Sorted(lists[i])
    BY <1>4 DEF IdleInv, ListsInv
  <2>2. ASSUME NEW n \in NodesOf(lists[i])
        PROVE  n.updated = walk.at \/ (n.updated < walk.at /\ n.updated = heard[n.con][i])
    <3>1. n \in Nodes
      BY <1>2, <1>4, <2>2 DEF NodesOf
    <3>2. n.updated = heard[n.con][i] /\ n.con \in Conns /\ n.updated \in Nat
      BY <1>4, <2>2, <3>1 DEF IdleInv, ListsInv, Nodes
    <3>3. heard[n.con][i] <= walk.at
      BY <1>1, <1>4, <3>2 DEF IdleInv, HeardInv
    <3>4. walk.at \in Nat
      BY <1>2 DEF Walks
    <3> QED
      BY <3>2, <3>3, <3>4
  <2>3. ASSUME NEW c \in Conns, i \in ids[c]
        PROVE  Node(c, heard[c][i]) \in NodesOf(lists[i])
    <3>1. heard[c][i] \in Nat
      BY <1>2, <1>4
    <3>2. /\ Node(c, heard[c][i]) \in Nodes /\ Node(c, heard[c][i]).con = c
          /\ Node(c, heard[c][i]).updated = heard[c][i]
      BY <3>1, NodeFields
    <3> QED
      BY <1>4, <2>3, <3>2 DEF IdleInv, ListsInv
  <2> QED
    BY <1>1, <1>4, <1>5, <2>1, <2>2, <2>3 DEF WalkInv
<1> QED
  BY <1>6, <1>7, <1>8 DEF IdleInv

\* A callback keeps the invariant: the front was heard of as long ago as its
\* node says, as it is older than the walk; marked, it is the youngest of
\* the copy; and what the callback closes only takes registrations away.
LEMMA CallBackInv == ASSUME IdleInv, CallBack PROVE IdleInv'
<1> DEFINE h == Head(walk.copy)
           c == h.con
           rest == Tail(walk.copy)
           n0 == Node(c, walk.at)
<1>1. /\ ~Free /\ walk.copy # <<>> /\ h.updated + walk.idle <= walk.at
      /\ walk' = [walk EXCEPT !.copy = Append(rest, n0)]
      /\ called' = called \cup {<<c, walk.idle>>} /\ UNCHANGED <<now, heard>>
      /\ UNCHANGED <<lists, ids>> \/ \E d \in Conns : Cleanup(d)
  BY DEF CallBack, Idle
<1>2. /\ walk \in Walks /\ walk.at \in Nat /\ walk.copy \in Seq(Nodes)
      /\ lists \in [Idles -> Seq(Nodes)] /\ ids \in [Conns -> SUBSET Idles]
      /\ heard \in [Conns -> [Idles -> Nat]]
  BY DEF IdleInv, TypeOK, Walks
<1>3. walk.idle \in Idles /\ walk.idle \in Nat \ {0}
  BY <1>1, <1>2, IdleAssumption DEF IdleInv, WalkInv, Walks
<1>4. /\ h \in NodesOf(walk.copy) /\ h \in Nodes
      /\ rest \in Seq(Nodes) /\ Sorted(rest)
      /\ NodesOf(walk.copy) = {h} \cup NodesOf(rest)
  BY <1>1, <1>2, TailNodes DEF IdleInv, WalkInv
<1>5. c \in Conns /\ h.updated \in Nat
  BY <1>4 DEF Nodes
<1>6. h.updated = heard[c][walk.idle]
  <2>1. h.updated = walk.at \/ (h.updated < walk.at /\ h.updated = heard[h.con][walk.idle])
    BY <1>3, <1>4 DEF IdleInv, WalkInv
  <2> QED
    BY <1>1, <1>2, <1>3, <1>5, <2>1
<1>7. n0 \in Nodes /\ n0.con = c /\ n0.updated = walk.at
  BY <1>2, <1>5, NodeFields
<1> HIDE DEF h, c, rest, n0
<1>8. \A n \in NodesOf(walk.copy) : n.updated <= walk.at
  <2>1. \A n \in NodesOf(walk.copy) : n.updated = walk.at \/ n.updated < walk.at
    BY <1>3 DEF IdleInv, WalkInv
  <2>2. \A n \in NodesOf(walk.copy) : n.updated \in Nat
    <3>1. NodesOf(walk.copy) \subseteq Nodes
      BY <1>2 DEF NodesOf
    <3> QED
      BY <3>1 DEF Nodes
  <2> QED
    BY <1>2, <2>1, <2>2
<1>9. /\ Append(rest, n0) \in Seq(Nodes) /\ Sorted(Append(rest, n0))
      /\ NodesOf(Append(rest, n0)) = NodesOf(rest) \cup {n0}
  BY <1>4, <1>7, <1>8, AppendNode
<1>10. /\ walk' \in Walks /\ walk'.at = walk.at /\ walk'.idle = walk.idle
       /\ walk'.copy = Append(rest, n0)
  BY <1>1, <1>2, <1>9 DEF Walks
<1>11. /\ lists' \in [Idles -> Seq(Nodes)] /\ ids' \in [Conns -> SUBSET Idles] /\ ListsInv'
       /\ \A d \in Conns : ids'[d] \subseteq ids[d]
  <2>1. CASE UNCHANGED <<lists, ids>>
    BY <1>1, <1>2, <2>1 DEF IdleInv, ListsInv
  <2>2. ASSUME NEW d \in Conns, Cleanup(d)
        PROVE  /\ lists' \in [Idles -> Seq(Nodes)] /\ ids' \in [Conns -> SUBSET Idles] /\ ListsInv'
               /\ \A e \in Conns : ids'[e] \subseteq ids[e]
    BY <1>1, <2>2, CleanupLists DEF IdleInv
  <2> QED
    BY <1>1, <2>1, <2>2
<1>12. TypeOK'
  BY <1>1, <1>2, <1>3, <1>5, <1>10, <1>11 DEF IdleInv, TypeOK
<1>13. HeardInv'
  BY <1>1, <1>10 DEF IdleInv, HeardInv
<1>14. WalkInv'
  <2>1. ASSUME NEW n \in NodesOf(walk'.copy)
        PROVE  n.updated = walk.at \/ (n.updated < walk.at /\ n.updated = heard[n.con][walk.idle])
    BY <1>3, <1>4, <1>7, <1>9, <1>10, <2>1 DEF IdleInv, WalkInv
  <2>2. ASSUME NEW d \in Conns, walk.idle \in ids'[d]
        PROVE  <<d, walk.idle>> \in called' \/ Node(d, heard[d][walk.idle]) \in NodesOf(walk'.copy)
    <3>1. CASE d = c
      BY <1>1, <3>1
    <3>2. CASE d # c
      <4>1. <<d, walk.idle>> \in called \/ Node(d, heard[d][walk.idle]) \in NodesOf(walk.copy)
        BY <1>3, <1>11, <2>2 DEF IdleInv, WalkInv
      <4>2. Node(d, heard[d][walk.idle]).con = d
        BY <1>2, <1>3, NodeFields
      <4>3. Node(d, heard[d][walk.idle]) # h
        BY <3>2, <4>2 DEF c
      <4> QED
        BY <1>1, <1>4, <1>9, <1>10, <4>1, <4>3
    <3> QED
      BY <3>1, <3>2
  <2> QED
    BY <1>1, <1>3, <1>9, <1>10, <2>1, <2>2 DEF WalkInv
<1>15. OnlyIdleAreCalled'
  <2>1. heard[c][walk.idle] + walk.idle <= walk.at
    BY <1>1, <1>6
  <2>2. \A p \in called : heard[p[1]][p[2]] + p[2] <= walk.at
    BY <1>1 DEF IdleInv, OnlyIdleAreCalled
  <2> QED
    BY <1>1, <1>10, <2>1, <2>2 DEF OnlyIdleAreCalled
<1> QED
  BY <1>11, <1>12, <1>13, <1>14, <1>15 DEF IdleInv

\* The walk leaves a list.
LEMMA LeaveListInv == ASSUME IdleInv, LeaveList PROVE IdleInv'
<1>1. /\ ~Free /\ UNCHANGED <<now, called, lists, ids, heard>>
      /\ walk' = NoWalk \/ walk' = [walk EXCEPT !.idle = 0, !.copy = <<>>]
  BY DEF LeaveList, conns
<1>2. walk \in Walks /\ <<>> \in Seq(Nodes)
  BY DEF IdleInv, TypeOK
<1>3. /\ walk' \in Walks /\ walk'.idle = 0 /\ walk'.copy = <<>>
      /\ walk' = NoWalk \/ walk'.at = walk.at
  BY <1>1, <1>2, NoWalkFields DEF Walks
<1>4. TypeOK' /\ ListsInv'
  BY <1>1, <1>3 DEF IdleInv, TypeOK, ListsInv
<1>5. HeardInv'
  BY <1>1, <1>3 DEF IdleInv, HeardInv, Free
<1>6. WalkInv'
  BY <1>3 DEF WalkInv, Sorted
<1>7. OnlyIdleAreCalled'
  BY <1>1, <1>3 DEF IdleInv, OnlyIdleAreCalled, Free
<1> QED
  BY <1>4, <1>5, <1>6, <1>7 DEF IdleInv

-----------------------------------------------------------------------------
(* The theorems.                                                            *)

\* In every reachable state the lists are in order and complete, and the walk
\* under way has still to look at, or has called, whoever is registered.
THEOREM IdleInvariant == Spec => []IdleInv
<1>1. IdleInv /\ [Next]_vars => IdleInv'
  <2> SUFFICES ASSUME IdleInv, [Next]_vars PROVE IdleInv'
    OBVIOUS
  <2>0. now \in Nat
    BY DEF IdleInv, TypeOK
  <2>1. CASE Tick
    BY <2>0, <2>1, SameLists DEF Tick, conns
  <2>2. ASSUME NEW c \in Conns, Connected(c) \/ CloseTooLate(c) PROVE IdleInv'
    BY <2>0, <2>2, SameLists DEF Connected, CloseTooLate
  <2>3. CASE UNCHANGED vars
    BY <2>0, <2>3, SameLists DEF vars, conns
  <2> QED
    BY <2>1, <2>2, <2>3, AddInv, ReadInv, EndsInv, CallIdlesInv, NextListInv, CallBackInv,
       LeaveListInv DEF Next
<1> QED
  BY IdleInitInv, <1>1, PTL DEF Spec

\* When callIdles leaves a list it has called back everybody who has been
\* idle that long, for any number of connections and idle times.
THEOREM IdleAreAlwaysCalled == Spec => []IdleAreCalled
<1>1. IdleInv => IdleAreCalled
  <2> SUFFICES ASSUME IdleInv, ListDone, NEW c \in Conns, walk.idle \in ids[c],
                      heard[c][walk.idle] + walk.idle <= walk.at,
                      <<c, walk.idle>> \notin called
               PROVE  FALSE
    BY DEF IdleAreCalled
  <2>1. walk.copy \in Seq(Nodes) /\ walk.idle \in Idles \cup {0} /\ walk.at \in Nat
    BY DEF IdleInv, TypeOK, Walks
  <2>2. walk.idle \in Idles /\ walk.idle \in Nat \ {0}
    BY <2>1, IdleAssumption DEF ListDone
  <2>3. heard[c][walk.idle] \in Nat
    BY <2>2 DEF IdleInv, TypeOK
  <2> DEFINE n == Node(c, heard[c][walk.idle])
  <2>4. n \in NodesOf(walk.copy)
    BY <2>2 DEF IdleInv, WalkInv
  <2>5. n.updated = heard[c][walk.idle]
    BY <2>3, NodeFields
  <2> HIDE DEF n
  <2>6. walk.copy # <<>>
    BY <2>4 DEF NodesOf
  <2>7. Head(walk.copy).updated <= n.updated /\ Head(walk.copy) \in Nodes
    BY <2>1, <2>4, <2>6, TailNodes DEF IdleInv, WalkInv
  <2>8. ~(Head(walk.copy).updated + walk.idle <= walk.at) /\ Head(walk.copy).updated \in Nat
    BY <2>6, <2>7 DEF ListDone, Idle, Nodes
  <2> QED
    BY <2>1, <2>2, <2>3, <2>5, <2>7, <2>8
<1> QED
  BY <1>1, IdleInvariant, PTL

\* callIdles calls nobody back who was heard of within that time.
THEOREM OnlyIdleAreEverCalled == Spec => []OnlyIdleAreCalled
<1>1. IdleInv => OnlyIdleAreCalled
  BY DEF IdleInv
<1> QED
  BY <1>1, IdleInvariant, PTL
=============================================================================
