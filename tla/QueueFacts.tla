------------------------------ MODULE QueueFacts ------------------------------
(***************************************************************************)
(* Facts about the gate's queue of work items that need no state: where    *)
(* the block of a job is, as a relation between the queue, how far the     *)
(* jobs are and how often their blocks have run, and what appending an     *)
(* item and taking the first one do to it.  They serve the gate on its own *)
(* (DispatcherProofs) and inside an application (ApplicationProofs).       *)
(***************************************************************************)
EXTENDS Integers, Sequences, TLAPS

Items(J) == J \X {"wrapper", "block"}

Holds(q, x) == \E i \in DOMAIN q : q[i] = x

\* No item is in the queue twice.
Distinct(q) == \A i, k \in DOMAIN q : q[i] = q[k] => i = k

\* Who holds the block of j: the submitter, its wrapper, the queue, or nobody any more.
Place(q, st, rn, j) ==
    /\ Holds(q, <<j, "wrapper">>) <=> st[j] = "queued"
    /\ Holds(q, <<j, "block">>) <=> (st[j] \in {"direct", "enqueued", "over"} /\ rn[j] = 0)
    /\ rn[j] \in {0, 1}
    /\ st[j] \notin {"direct", "enqueued", "over"} => rn[j] = 0

Placed(J, q, st, rn) == Distinct(q) /\ \A j \in J : Place(q, st, rn, j)
-----------------------------------------------------------------------------
(* The queue alone                                                         *)

\* Appending an item that is not there adds it, once.
LEMMA AppendHolds ==
    ASSUME NEW S, NEW q \in Seq(S), NEW item \in S, Distinct(q), ~Holds(q, item)
    PROVE  /\ Distinct(Append(q, item))
           /\ \A x \in S : Holds(Append(q, item), x) <=> (Holds(q, x) \/ x = item)
<1> DEFINE n == Len(q)
           q2 == Append(q, item)
<1>1. /\ n \in Nat /\ DOMAIN q = 1..n
      /\ DOMAIN q2 = 1..(n + 1)
      /\ \A i \in 1..n : q2[i] = q[i]
      /\ q2[n + 1] = item
  OBVIOUS
<1> HIDE DEF n, q2
<1>2. Distinct(q2)
  BY <1>1 DEF Distinct, Holds
<1>3. ASSUME NEW x \in S PROVE Holds(q2, x) <=> (Holds(q, x) \/ x = item)
  BY <1>1 DEF Holds
<1> QED
  BY <1>2, <1>3 DEF q2

\* Taking the first item of a queue that holds none twice removes it.
LEMMA TailHolds ==
    ASSUME NEW S, NEW q \in Seq(S), Distinct(q), q # <<>>
    PROVE  /\ Distinct(Tail(q))
           /\ Holds(q, Head(q))
           /\ \A x \in S : Holds(Tail(q), x) <=> (Holds(q, x) /\ x # Head(q))
<1> DEFINE n == Len(q)
           q2 == Tail(q)
<1>1. /\ n \in Nat /\ n > 0 /\ DOMAIN q = 1..n
      /\ Head(q) = q[1]
      /\ DOMAIN q2 = 1..(n - 1)
      /\ \A i \in 1..(n - 1) : q2[i] = q[i + 1]
  OBVIOUS
<1> HIDE DEF n, q2
<1>2. Distinct(q2)
  BY <1>1 DEF Distinct
<1>3. Holds(q, Head(q))
  BY <1>1 DEF Holds
<1>4. ASSUME NEW x \in S, Holds(q2, x) PROVE Holds(q, x) /\ x # Head(q)
  <2>1. PICK i \in 1..(n - 1) : q[i + 1] = x
    BY <1>1, <1>4 DEF Holds
  <2>2. i + 1 \in 1..n /\ i + 1 # 1
    BY <1>1
  <2> QED
    BY <1>1, <2>1, <2>2 DEF Holds, Distinct
<1>5. ASSUME NEW x \in S, Holds(q, x), x # Head(q) PROVE Holds(q2, x)
  <2>1. PICK i \in 1..n : q[i] = x /\ i # 1
    BY <1>1, <1>5 DEF Holds
  <2>2. i - 1 \in 1..(n - 1) /\ (i - 1) + 1 = i
    BY <1>1, <2>1
  <2>3. q2[i - 1] = q[i]
    BY <1>1, <2>2
  <2> QED
    BY <1>1, <2>1, <2>2, <2>3 DEF Holds
<1> QED
  BY <1>2, <1>3, <1>4, <1>5 DEF q2

\* The items of a job, and those of another job differ from them.
LEMMA ItemFacts ==
    ASSUME NEW J, NEW j \in J, NEW d \in J
    PROVE  /\ <<j, "wrapper">> \in Items(J) /\ <<j, "block">> \in Items(J)
           /\ <<d, "wrapper">> # <<j, "block">> /\ <<d, "block">> # <<j, "wrapper">>
           /\ <<d, "block">> = <<j, "block">> => d = j
           /\ <<d, "wrapper">> = <<j, "wrapper">> => d = j
BY DEF Items
-----------------------------------------------------------------------------
(* The queue and the jobs                                                  *)

\* Nothing is anywhere at first.
LEMMA PlacedFirst ==
    ASSUME NEW J
    PROVE  Placed(J, <<>>, [j \in J |-> "new"], [j \in J |-> 0])
<1>1. DOMAIN <<>> = {}
  OBVIOUS
<1> QED
  BY <1>1 DEF Placed, Distinct, Place, Holds

\* A job whose item is put into the queue, when it is submitted or by its wrapper.
LEMMA PlacedAppend ==
    ASSUME NEW J, NEW S, NEW q \in Seq(Items(J)), NEW st \in [J -> S], NEW rn,
           Placed(J, q, st, rn), NEW j \in J, NEW kind, NEW s,
           \/ kind = "wrapper" /\ st[j] = "new" /\ s = "queued"
           \/ kind = "block" /\ st[j] = "new" /\ s = "direct"
           \/ kind = "block" /\ st[j] = "granted" /\ s = "enqueued"
    PROVE  Placed(J, Append(q, <<j, kind>>), [st EXCEPT ![j] = s], rn)
<1> DEFINE item == <<j, kind>>
           q2   == Append(q, item)
           st2  == [st EXCEPT ![j] = s]
<1>1. item \in Items(J) /\ ~Holds(q, item) /\ rn[j] = 0
  BY ItemFacts DEF Placed, Place
<1>2. /\ Distinct(q2)
      /\ \A x \in Items(J) : Holds(q2, x) <=> (Holds(q, x) \/ x = item)
  BY <1>1, AppendHolds DEF Placed
<1>3. ASSUME NEW d \in J PROVE Place(q2, st2, rn, d)
  <2>1. /\ Holds(q2, <<d, "wrapper">>)
              <=> (Holds(q, <<d, "wrapper">>) \/ (d = j /\ kind = "wrapper"))
        /\ Holds(q2, <<d, "block">>)
              <=> (Holds(q, <<d, "block">>) \/ (d = j /\ kind = "block"))
    <3>1. /\ Holds(q2, <<d, "wrapper">>) <=> (Holds(q, <<d, "wrapper">>) \/ <<d, "wrapper">> = item)
          /\ Holds(q2, <<d, "block">>) <=> (Holds(q, <<d, "block">>) \/ <<d, "block">> = item)
      BY <1>2, ItemFacts
    <3> HIDE DEF q2
    <3> QED
      BY <3>1
  <2>2. st2[d] = (IF d = j THEN s ELSE st[d]) /\ Place(q, st, rn, d)
    BY DEF Placed
  <2> HIDE DEF q2, st2
  <2> QED
    BY <1>1, <2>1, <2>2 DEF Place
<1> QED
  BY <1>2, <1>3 DEF Placed

\* A wrapper that is taken from the queue was waiting there.
LEMMA PlacedTakeWrapper ==
    ASSUME NEW J, NEW S, NEW q \in Seq(Items(J)), NEW st \in [J -> S], NEW rn,
           Placed(J, q, st, rn), NEW j \in J, q # <<>>, Head(q) = <<j, "wrapper">>
    PROVE  /\ st[j] = "queued"
           /\ Placed(J, Tail(q), [st EXCEPT ![j] = "waiting"], rn)
<1> DEFINE q2   == Tail(q)
           st2  == [st EXCEPT ![j] = "waiting"]
<1>1. /\ Distinct(q2) /\ Holds(q, <<j, "wrapper">>)
      /\ \A x \in Items(J) : Holds(q2, x) <=> (Holds(q, x) /\ x # <<j, "wrapper">>)
  BY TailHolds DEF Placed
<1>2. st[j] = "queued"
  BY <1>1 DEF Placed, Place
<1>3. ASSUME NEW d \in J PROVE Place(q2, st2, rn, d)
  <2>1. /\ Holds(q2, <<d, "wrapper">>) <=> (Holds(q, <<d, "wrapper">>) /\ d # j)
        /\ Holds(q2, <<d, "block">>) <=> Holds(q, <<d, "block">>)
    BY <1>1, ItemFacts
  <2>2. st2[d] = (IF d = j THEN "waiting" ELSE st[d]) /\ Place(q, st, rn, d)
    BY DEF Placed
  <2> HIDE DEF q2, st2
  <2> QED
    BY <1>2, <2>1, <2>2 DEF Place
<1> QED
  BY <1>1, <1>2, <1>3 DEF Placed

\* A block that is taken from the queue had not run.
LEMMA PlacedTakeBlock ==
    ASSUME NEW J, NEW S, NEW q \in Seq(Items(J)), NEW st, NEW rn \in [J -> Nat],
           Placed(J, q, st, rn), NEW j \in J, q # <<>>, Head(q) = <<j, "block">>
    PROVE  /\ st[j] \in {"direct", "enqueued", "over"} /\ rn[j] = 0
           /\ Placed(J, Tail(q), st, [rn EXCEPT ![j] = @ + 1])
<1> DEFINE q2   == Tail(q)
           rn2  == [rn EXCEPT ![j] = @ + 1]
<1>1. /\ Distinct(q2) /\ Holds(q, <<j, "block">>)
      /\ \A x \in Items(J) : Holds(q2, x) <=> (Holds(q, x) /\ x # <<j, "block">>)
  BY TailHolds DEF Placed
<1>2. st[j] \in {"direct", "enqueued", "over"} /\ rn[j] = 0
  BY <1>1 DEF Placed, Place
<1>3. ASSUME NEW d \in J PROVE Place(q2, st, rn2, d)
  <2>1. /\ Holds(q2, <<d, "wrapper">>) <=> Holds(q, <<d, "wrapper">>)
        /\ Holds(q2, <<d, "block">>) <=> (Holds(q, <<d, "block">>) /\ d # j)
    BY <1>1, ItemFacts
  <2>2. rn2[d] = (IF d = j THEN 1 ELSE rn[d]) /\ Place(q, st, rn, d)
    BY <1>2 DEF Placed
  <2> HIDE DEF q2, rn2
  <2> QED
    BY <1>2, <2>1, <2>2 DEF Place
<1> QED
  BY <1>1, <1>2, <1>3 DEF Placed

\* The wrapper's wait and its signal leave the queue alone.
LEMMA PlacedWrapper ==
    ASSUME NEW J, NEW S, NEW q, NEW st \in [J -> S], NEW rn, Placed(J, q, st, rn),
           NEW j \in J, NEW s,
           \/ st[j] = "waiting" /\ s = "granted"
           \/ st[j] = "enqueued" /\ s = "over"
    PROVE  Placed(J, q, [st EXCEPT ![j] = s], rn)
<1> DEFINE st2 == [st EXCEPT ![j] = s]
<1>1. ASSUME NEW d \in J PROVE Place(q, st2, rn, d)
  <2>1. st2[d] = (IF d = j THEN s ELSE st[d]) /\ Place(q, st, rn, d)
    BY DEF Placed
  <2> HIDE DEF st2
  <2> QED
    BY <2>1 DEF Place
<1> QED
  BY <1>1 DEF Placed

\* A block that has been submitted and has not run is with its wrapper or in the queue.
LEMMA PlacedSomewhere ==
    ASSUME NEW J, NEW q, NEW st, NEW rn, Placed(J, q, st, rn), NEW j \in J,
           st[j] \in {"direct", "queued", "over"}, rn[j] = 0
    PROVE  q # <<>>
<1>1. Holds(q, <<j, "wrapper">>) \/ Holds(q, <<j, "block">>)
  BY DEF Placed, Place
<1> QED
  BY <1>1 DEF Holds
=============================================================================
