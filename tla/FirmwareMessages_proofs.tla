------------------------ MODULE FirmwareMessages_proofs ------------------------
(***************************************************************************)
(* What becomes of a message in the firmware: the safety properties of     *)
(* UorbDelivery, for any publishers and items, every queue size and any    *)
(* number of generations and messages that DeliveryAssumption allows; then *)
(* those of FaultInjection, whose messages travel on such topics, for      *)
(* every set of modes and flags and any number of commands.                *)
(***************************************************************************)
EXTENDS UorbDelivery, FaultInjection, SequenceTheorems, FiniteSetTheorems, TLAPS

(***************************************************************************)
(* UorbDelivery.  An item is forgotten because its owner takes it out of   *)
(* each list before the next (ListInv), and the callbacks are changed only *)
(* under the lock that a publisher holds over its calls (LockInv).  What   *)
(* is read is in order because a slot is not written again before a        *)
(* queue's size of messages (DataInv) and a subscription's generation      *)
(* tells how many messages it is behind, modulo Wrap (SeenInv).  SemInv    *)
(* bounds the semaphore.                                                   *)
(***************************************************************************)

(* What an owner has done when its item is on the queue, called back,      *)
(* subscribed.                                                             *)
CalledBack  == {"registered", "signal", "post", "on"}
OnQueue     == CalledBack \cup {"unregistered"}
Attached    == OnQueue \cup {"attached", "subscribed"}
Runnable    == OnQueue \cup {"deinit"}
Subscribed  == Runnable \cup {"subscribed"}

(* The node's lock is held by the publisher that is not outside write; the *)
(* callbacks it still has to make are of those registered, who are.        *)
LockInv ==
    /\ \A p \in Publishers : pub[p] # "out" <=> lock = p
    /\ lock = Free => calls = << >>
    /\ ToSet(calls) \subseteq ToSet(callbacks)

(* Each list holds an item at most once, and only for as long as its owner *)
(* has not taken it out.                                                   *)
ListInv ==
    /\ IsInjective(q) /\ IsInjective(callbacks)
    /\ \A it \in ToSet(q) : stage[it] \in OnQueue
    /\ \A it \in ToSet(callbacks) : stage[it] \in CalledBack
    /\ \A it \in Items : it \in attached <=> stage[it] \in Attached
    /\ worker \in InRun => work \in Items /\ stage[work] \in Runnable
    /\ worker = "cleanup" => work \notin ToSet(callbacks)

(* The threads that have found the semaphore low and are about to post it. *)
Posting == {p \in Publishers : pub[p] = "post"}
PostingItems == {it \in Items : stage[it] = "post"}

(* The semaphore is negative when the worker sleeps, and high only by      *)
(* threads that are not about to post.                                     *)
SemInv ==
    /\ sem > 0 => sem + Cardinality(Posting) + Cardinality(PostingItems)
                    <= Cardinality(Publishers) + Cardinality(Items)
    /\ IF worker = "blocked" THEN sem = -1 ELSE sem >= 0

(* The generation d publications ago, and how many an item is behind.      *)
Back(d)    == IF d <= generation THEN generation - d ELSE generation - d + Wrap
Behind(it) == IF last[it] <= generation THEN generation - last[it]
              ELSE generation - last[it] + Wrap

(* The last messages are in their slots.                                   *)
DataInv ==
    /\ \A d \in 1..QueueSize :
          d <= published => data[Back(d) % QueueSize] = published - d + 1
    /\ valid \/ lock # Free => published > 0
    /\ lock = Free /\ published > 0 => valid

(* Between copy and ++generation a subscription is one behind what it has  *)
(* read.                                                                   *)
Pending(it) == IF worker = "bump" /\ work = it THEN 1 ELSE 0

(* A subscription's generation tells what it has read, for it is never     *)
(* Wrap messages behind.                                                   *)
SeenInv ==
    /\ \A it \in Items : stage[it] \in Subscribed =>
          /\ seen[it] <= published
          /\ published - seen[it] + Pending(it) + left <= MaxMore + 1
          /\ Behind(it) = published - seen[it] + Pending(it)
    /\ worker = "copy" => seen[work] < published

IInv == TypeOK /\ LockInv /\ ListInv /\ SemInv /\ DataInv /\ SeenInv
-----------------------------------------------------------------------------
(* RemoveAt takes one element out of a sequence without duplicates.        *)
LEMMA RemoveAtFacts ==
    ASSUME NEW S, NEW s \in Seq(S), NEW c \in 1..Len(s), IsInjective(s)
    PROVE  /\ RemoveAt(s, c) \in Seq(S)
           /\ Len(RemoveAt(s, c)) = Len(s) - 1
           /\ IsInjective(RemoveAt(s, c))
           /\ ToSet(RemoveAt(s, c)) = ToSet(s) \ {s[c]}
<1> DEFINE r == RemoveAt(s, c)
           a == SubSeq(s, 1, c - 1)
           b == SubSeq(s, c + 1, Len(s))
<1>1. /\ a \in Seq(S) /\ Len(a) = c - 1
      /\ \A k \in 1..c - 1 : a[k] = s[k]
  BY SubSeqProperties, LenProperties, ElementOfSeq
<1>2. /\ b \in Seq(S) /\ Len(b) = Len(s) - c
      /\ \A k \in 1..Len(s) - c : b[k] = s[c + k]
  BY SubSeqProperties, LenProperties, ElementOfSeq
<1>0. r = a \o b /\ Len(s) \in Nat
  BY LenProperties DEF RemoveAt
<1> HIDE DEF r, a, b
<1>3. r \in Seq(S) /\ Len(r) = Len(s) - 1
  <2>1. r \in Seq(S) /\ Len(r) = Len(a) + Len(b)
    BY <1>0, <1>1, <1>2, ConcatProperties
  <2> QED BY <1>0, <1>1, <1>2, <2>1
<1>4. \A k \in 1..Len(s) - 1 : r[k] = IF k < c THEN s[k] ELSE s[k + 1]
  <2> SUFFICES ASSUME NEW k \in 1..Len(s) - 1
               PROVE  r[k] = IF k < c THEN s[k] ELSE s[k + 1]
    OBVIOUS
  <2>1. r[k] = IF k <= Len(a) THEN a[k] ELSE b[k - Len(a)]
    BY <1>0, <1>1, <1>2, ConcatProperties
  <2> QED BY <1>0, <1>1, <1>2, <2>1
<1>5. DOMAIN s = 1..Len(s) /\ DOMAIN r = 1..Len(s) - 1 /\ Len(s) \in Nat
  BY <1>3, LenProperties
<1>6. IsInjective(r)
  <2> SUFFICES ASSUME NEW j \in 1..Len(s) - 1, NEW k \in 1..Len(s) - 1, r[j] = r[k]
               PROVE  j = k
    BY <1>5 DEF IsInjective
  <2> DEFINE At(l) == IF l < c THEN l ELSE l + 1
  <2>1. /\ At(j) \in DOMAIN s /\ At(k) \in DOMAIN s
        /\ r[j] = s[At(j)] /\ r[k] = s[At(k)]
    BY <1>4, <1>5
  <2>2. At(j) = At(k)
    BY <2>1 DEF IsInjective
  <2> QED BY <2>2
<1>7. ToSet(r) \subseteq ToSet(s) \ {s[c]}
  BY <1>4, <1>5 DEF IsInjective, ToSet
<1>8. ASSUME NEW k \in 1..Len(s), k # c PROVE s[k] \in ToSet(r)
  <2>1. CASE k < c
    <3>1. k \in 1..Len(s) - 1 /\ r[k] = s[k]
      BY <1>4, <1>5, <2>1
    <3> QED BY <1>5, <3>1 DEF ToSet
  <2>2. CASE k > c
    <3>1. k - 1 \in 1..Len(s) - 1 /\ r[k - 1] = s[k]
      BY <1>4, <1>5, <2>2
    <3> QED BY <1>5, <3>1 DEF ToSet
  <2> QED BY <1>8, <2>1, <2>2
<1>9. ToSet(s) \ {s[c]} \subseteq ToSet(r)
  BY <1>5, <1>8 DEF ToSet
<1> QED BY <1>3, <1>6, <1>7, <1>9 DEF r

(* Putting a new element in front of a sequence without duplicates.        *)
LEMMA ConsFacts ==
    ASSUME NEW S, NEW s \in Seq(S), NEW e \in S, IsInjective(s), e \notin ToSet(s)
    PROVE  /\ <<e>> \o s \in Seq(S)
           /\ Len(<<e>> \o s) = Len(s) + 1
           /\ IsInjective(<<e>> \o s)
           /\ ToSet(<<e>> \o s) = ToSet(s) \cup {e}
<1> DEFINE r == <<e>> \o s
<1>1. /\ <<e>> \in Seq(S) /\ Len(<<e>>) = 1 /\ <<e>>[1] = e
  OBVIOUS
<1>2. r \in Seq(S) /\ Len(r) = Len(s) + 1
  BY <1>1, ConcatProperties
<1>3. \A k \in 1..Len(s) + 1 : r[k] = IF k = 1 THEN e ELSE s[k - 1]
  <2>1. \A k \in 1..Len(<<e>>) + Len(s) :
            r[k] = IF k <= Len(<<e>>) THEN <<e>>[k] ELSE s[k - Len(<<e>>)]
    BY <1>1, ConcatProperties
  <2>2. Len(s) \in Nat
    BY LenProperties
  <2> QED BY <1>1, <2>1, <2>2
<1> HIDE DEF r
<1>4. DOMAIN s = 1..Len(s) /\ DOMAIN r = 1..Len(s) + 1 /\ Len(s) \in Nat
  BY <1>2, LenProperties
<1>5. IsInjective(r)
  <2> SUFFICES ASSUME NEW j \in 1..Len(s) + 1, NEW k \in 1..Len(s) + 1, r[j] = r[k]
               PROVE  j = k
    BY <1>4 DEF IsInjective
  <2>1. \A l \in 1..Len(s) : s[l] # e
    BY <1>4 DEF ToSet
  <2>2. CASE j = 1 \/ k = 1
    BY <1>3, <1>4, <2>1, <2>2
  <2>3. CASE j # 1 /\ k # 1
    <3>1. j - 1 \in DOMAIN s /\ k - 1 \in DOMAIN s /\ s[j - 1] = s[k - 1]
      BY <1>3, <1>4, <2>3
    <3> QED BY <3>1 DEF IsInjective
  <2> QED BY <2>2, <2>3
<1>6. ToSet(r) \subseteq ToSet(s) \cup {e}
  BY <1>3, <1>4 DEF ToSet
<1>7. e \in ToSet(r)
  <2>1. 1 \in DOMAIN r /\ r[1] = e
    BY <1>3, <1>4
  <2> QED BY <2>1 DEF ToSet
<1>8. ASSUME NEW k \in 1..Len(s) PROVE s[k] \in ToSet(r)
  <2>1. k + 1 \in DOMAIN r /\ r[k + 1] = s[k]
    BY <1>3, <1>4
  <2> QED BY <2>1 DEF ToSet
<1>9. ToSet(s) \subseteq ToSet(r)
  BY <1>4, <1>8 DEF ToSet
<1> QED BY <1>2, <1>5, <1>6, <1>7, <1>9 DEF r

(* remove of List and of IntrusiveQueue takes the element out.             *)
LEMMA RemoveFacts ==
    ASSUME NEW S, NEW s \in Seq(S), NEW e, IsInjective(s)
    PROVE  /\ RemoveFirst(s, e) \in Seq(S)
           /\ IsInjective(RemoveFirst(s, e))
           /\ ToSet(RemoveFirst(s, e)) = ToSet(s) \ {e}
<1>1. CASE \E i \in 1..Len(s) : s[i] = e
  <2>1. PICK c \in 1..Len(s) : s[c] = e
    BY <1>1
  <2>2. DOMAIN s = 1..Len(s) /\ Len(s) \in Nat
    BY LenProperties
  <2>3. {i \in 1..Len(s) : s[i] = e} = {c}
    BY <2>1, <2>2 DEF IsInjective
  <2>4. Min({c}) = c
    BY <2>2 DEF Min
  <2>5. SelectInSeq(s, LAMBDA v : v = e) = c
    BY <2>3, <2>4 DEF SelectInSeq
  <2>6. RemoveFirst(s, e) = RemoveAt(s, c)
    BY <1>1, <2>5 DEF RemoveFirst
  <2> QED BY <2>1, <2>6, RemoveAtFacts
<1>2. CASE ~\E i \in 1..Len(s) : s[i] = e
  <2>1. RemoveFirst(s, e) = s
    BY <1>2 DEF RemoveFirst
  <2>2. e \notin ToSet(s)
    BY <1>2, LenProperties DEF ToSet
  <2> QED BY <2>1, <2>2
<1> QED BY <1>1, <1>2

(* Pushing an item that is not queued yet at the end.                      *)
LEMMA AppendFacts ==
    ASSUME NEW S, NEW s \in Seq(S), NEW e \in S, IsInjective(s), e \notin ToSet(s)
    PROVE  /\ Append(s, e) \in Seq(S)
           /\ IsInjective(Append(s, e))
           /\ ToSet(Append(s, e)) = ToSet(s) \cup {e}
<1> DEFINE r == Append(s, e)
<1>1. /\ r \in Seq(S) /\ Len(r) = Len(s) + 1 /\ r[Len(s) + 1] = e
      /\ \A k \in 1..Len(s) : r[k] = s[k]
  BY AppendProperties
<1>2. DOMAIN s = 1..Len(s) /\ DOMAIN r = 1..Len(s) + 1 /\ Len(s) \in Nat
  BY <1>1, LenProperties
<1> HIDE DEF r
<1>3. \A k \in 1..Len(s) : s[k] # e
  BY <1>2 DEF ToSet
<1>4. IsInjective(r)
  BY <1>1, <1>2, <1>3 DEF IsInjective
<1>5. ToSet(r) = ToSet(s) \cup {e}
  <2>1. ToSet(r) \subseteq ToSet(s) \cup {e}
    BY <1>1, <1>2 DEF ToSet
  <2>2. e \in ToSet(r)
    BY <1>1, <1>2 DEF ToSet
  <2>3. ToSet(s) \subseteq ToSet(r)
    BY <1>1, <1>2 DEF ToSet
  <2> QED BY <2>1, <2>2, <2>3
<1> QED BY <1>1, <1>4, <1>5 DEF r

(* Popping the first item.                                                 *)
LEMMA TailFacts ==
    ASSUME NEW S, NEW s \in Seq(S), s # << >>
    PROVE  /\ Head(s) \in S /\ Head(s) \in ToSet(s)
           /\ Tail(s) \in Seq(S)
           /\ ToSet(Tail(s)) \subseteq ToSet(s)
           /\ IsInjective(s) => IsInjective(Tail(s)) /\ Head(s) \notin ToSet(Tail(s))
<1>1. /\ Len(s) \in Nat /\ Len(s) >= 1 /\ DOMAIN s = 1..Len(s)
      /\ Head(s) = s[1] /\ Head(s) \in S
      /\ Tail(s) \in Seq(S) /\ Len(Tail(s)) = Len(s) - 1
      /\ \A k \in 1..Len(s) - 1 : Tail(s)[k] = s[k + 1]
  BY LenProperties, HeadTailProperties, EmptySeq
<1>2. DOMAIN Tail(s) = 1..Len(s) - 1
  BY <1>1, LenProperties
<1>3. Head(s) \in ToSet(s)
  BY <1>1 DEF ToSet
<1>4. \A k \in DOMAIN Tail(s) : k + 1 \in DOMAIN s /\ Tail(s)[k] = s[k + 1]
  BY <1>1, <1>2
<1>5. ToSet(Tail(s)) \subseteq ToSet(s)
  BY <1>4 DEF ToSet
<1>6. ASSUME IsInjective(s)
      PROVE  IsInjective(Tail(s)) /\ Head(s) \notin ToSet(Tail(s))
  <2>1. IsInjective(Tail(s))
    <3> SUFFICES ASSUME NEW j \in DOMAIN Tail(s), NEW k \in DOMAIN Tail(s),
                        Tail(s)[j] = Tail(s)[k]
                 PROVE  j = k
      BY DEF IsInjective
    <3>1. j + 1 = k + 1
      BY <1>4, <1>6 DEF IsInjective
    <3> QED BY <1>1, <1>2, <3>1
  <2>2. ASSUME NEW k \in DOMAIN Tail(s) PROVE Tail(s)[k] # Head(s)
    <3>1. 1 \in DOMAIN s /\ k + 1 # 1
      BY <1>1, <1>2
    <3> QED BY <1>1, <1>4, <1>6, <3>1 DEF IsInjective
  <2> QED BY <2>1, <2>2 DEF ToSet
<1> QED BY <1>1, <1>3, <1>5, <1>6

(* round_pow_of_two_8 gives a power of two, and the generations are a      *)
(* multiple of it.                                                         *)
LEMMA QueueFacts ==
    /\ QueueSize \in Powers
    /\ QueueSize \in Nat /\ QueueSize >= 1 /\ QueueSize <= Wrap
    /\ Wrap \in Nat /\ Wrap >= 1 /\ Wrap % QueueSize = 0
<1>1. QueueSize \in Powers
  <2>1. CASE Requested > 128
    BY <2>1 DEF QueueSize, Powers
  <2>2. CASE ~(Requested > 128)
    <3>1. Requested \in 0..128
      BY <2>2, DeliveryAssumption
    <3>2. \E p \in Powers : p >= Requested /\ \A r \in Powers : r >= Requested => p <= r
      BY <3>1 DEF Powers
    <3> QED BY <2>2, <3>2 DEF QueueSize
  <2> QED BY <2>1, <2>2
<1>2. QueueSize \in Nat /\ QueueSize >= 1
  BY <1>1 DEF Powers
<1>3. Wrap \in Nat /\ Wrap >= 1 /\ Wrap % QueueSize = 0
  BY DeliveryAssumption
<1>4. QueueSize <= Wrap
  <2> HIDE DEF QueueSize
  <2> SUFFICES ASSUME QueueSize > Wrap PROVE FALSE
    BY <1>2, <1>3
  <2>1. Wrap % QueueSize = Wrap
    BY <1>2, <1>3
  <2> QED BY <1>3, <2>1
<1> QED BY <1>1, <1>2, <1>3, <1>4

(* Generations count up and wrap; the one d publications before g.         *)
LEMMA Forward ==
    ASSUME NEW W \in Nat, NEW g \in 0..(W - 1)
    PROVE  (g + 1) % W = IF g + 1 = W THEN 0 ELSE g + 1
OBVIOUS

LEMMA Backward ==
    ASSUME NEW W \in Nat, NEW g \in 0..(W - 1), NEW d \in 0..W
    PROVE  (g - d) % W = IF d <= g THEN g - d ELSE g - d + W
OBVIOUS

LEMMA Remainder ==
    ASSUME NEW W \in Nat, W >= 1, NEW k \in Int, NEW r \in 0..(W - 1)
    PROVE  (W * k + r) % W = r
OBVIOUS

LEMMA EarlierGeneration ==
    ASSUME NEW W \in Nat, W >= 1, NEW a \in Nat, NEW d \in 0..W
    PROVE  (a - d) % W = IF d <= a % W THEN (a % W) - d ELSE (a % W) - d + W
<1> DEFINE k == a \div W
           g == a % W
<1>1. k \in Int /\ g \in 0..(W - 1) /\ a = W * k + g
  OBVIOUS
<1> HIDE DEF k, g
<1>2. CASE d <= g
  <2>1. a - d = W * k + (g - d) /\ g - d \in 0..(W - 1)
    BY <1>1, <1>2
  <2> QED BY <1>1, <1>2, <2>1, Remainder DEF g
<1>3. CASE ~(d <= g)
  <2>1. a - d = W * (k - 1) + (g - d + W) /\ g - d + W \in 0..(W - 1) /\ k - 1 \in Int
    BY <1>1, <1>3
  <2> QED BY <1>1, <1>3, <2>1, Remainder DEF g
<1> QED BY <1>2, <1>3

(* Going back e publications and then the rest of d.                       *)
LEMMA BackInTwo ==
    ASSUME NEW W \in Nat, NEW g \in 0..(W - 1), NEW d \in 0..W, NEW e \in 0..d,
           NEW b, b = IF e <= g THEN g - e ELSE g - e + W
    PROVE  (IF d <= g THEN g - d ELSE g - d + W) =
              IF d - e <= b THEN b - (d - e) ELSE b - (d - e) + W
OBVIOUS

(* Fewer than a queue's size of publications apart, two generations have   *)
(* different slots, also across the wrap.                                  *)
LEMMA SlotsDiffer ==
    ASSUME NEW Q \in Powers, NEW W \in Nat, W % Q = 0, W >= 1,
           NEW g \in 0..(W - 1), NEW d \in 1..(Q - 1)
    PROVE  (IF d <= g THEN g - d ELSE g - d + W) % Q # g % Q
<1>1. CASE Q = 1 BY <1>1
<1>2. CASE Q = 2 BY <1>2
<1>3. CASE Q = 4 BY <1>3
<1>4. CASE Q = 8 BY <1>4
<1>5. CASE Q = 16 BY <1>5
<1>6. CASE Q = 32 BY <1>6
<1>7. CASE Q = 64 BY <1>7
<1>8. CASE Q = 128 BY <1>8
<1> QED BY <1>1, <1>2, <1>3, <1>4, <1>5, <1>6, <1>7, <1>8 DEF Powers

(* is_in_range tells which generations are still in the queue.             *)
LEMMA InRange ==
    ASSUME NEW W \in Nat, NEW Q \in 2..W, NEW g \in 0..(W - 1), NEW n \in 1..(W - 1)
    PROVE  IsInRange(IF Q <= g THEN g - Q ELSE g - Q + W,
                     IF n <= g THEN g - n ELSE g - n + W,
                     IF 1 <= g THEN g - 1 ELSE g - 1 + W) <=> n <= Q
BY DEF IsInRange
-----------------------------------------------------------------------------
(* How many threads can be about to post.                                  *)
LEMMA PostingFacts ==
    /\ Cardinality(Publishers) \in Nat /\ Cardinality(Items) \in Nat
    /\ IsFiniteSet(Posting) /\ IsFiniteSet(PostingItems)
    /\ Cardinality(Posting) \in 0..Cardinality(Publishers)
    /\ Cardinality(PostingItems) \in 0..Cardinality(Items)
<1>1. IsFiniteSet(Publishers) /\ IsFiniteSet(Items)
  BY DeliveryAssumption
<1>2. Posting \subseteq Publishers /\ PostingItems \subseteq Items
  BY DEF Posting, PostingItems
<1> QED BY <1>1, <1>2, FS_Subset, FS_CardinalityType

(* The same after a step.                                                  *)
LEMMA PostingFactsNext ==
    /\ IsFiniteSet(Posting') /\ IsFiniteSet(PostingItems')
    /\ Cardinality(Posting') \in 0..Cardinality(Publishers)
    /\ Cardinality(PostingItems') \in 0..Cardinality(Items)
<1>1. IsFiniteSet(Publishers) /\ IsFiniteSet(Items)
  BY DeliveryAssumption
<1>2. Posting' \subseteq Publishers /\ PostingItems' \subseteq Items
  BY DEF Posting, PostingItems
<1> QED BY <1>1, <1>2, FS_Subset, FS_CardinalityType

(* A semaphore that satisfies SemInv has its type.                         *)
LEMMA SemType ==
    ASSUME sem' \in Int, SemInv'
    PROVE  sem' \in -1..(Cardinality(Publishers) + Cardinality(Items))
<1>1. sem' >= -1
  BY DEF SemInv
<1>2. sem' > 0 => sem' <= Cardinality(Publishers) + Cardinality(Items)
  BY PostingFacts, PostingFactsNext DEF SemInv
<1> QED BY <1>1, <1>2, PostingFacts

(* A step that leaves the semaphore alone and makes nobody about to post.  *)
LEMMA SemStays ==
    ASSUME TypeOK, SemInv, sem' = sem,
           Posting' \subseteq Posting, PostingItems' \subseteq PostingItems,
           worker' = "blocked" <=> worker = "blocked"
    PROVE  SemInv'
<1>1. /\ Cardinality(Posting') <= Cardinality(Posting)
      /\ Cardinality(PostingItems') <= Cardinality(PostingItems)
  BY PostingFacts, FS_Subset
<1>2. sem \in Int
  BY DEF TypeOK
<1> QED BY <1>1, <1>2, PostingFacts, PostingFactsNext DEF SemInv

(* A thread that found the semaphore low may be about to post.             *)
LEMMA SemLow ==
    ASSUME TypeOK, SemInv, sem' = sem, sem <= 0, worker' = worker
    PROVE  SemInv'
BY DEF SemInv, TypeOK

(* A post wakes a worker that sleeps, and does nothing else to it.         *)
LEMMA PostWakes ==
    ASSUME Posted
    PROVE  worker' = worker \/ (worker = "blocked" /\ worker' = "drain")
BY DEF Posted

(* The thread that was about to post does.                                 *)
LEMMA SemPosted ==
    ASSUME TypeOK, SemInv, Post,
           \/ /\ \E p \in Posting : Posting' = Posting \ {p}
              /\ PostingItems' = PostingItems
           \/ /\ \E it \in PostingItems : PostingItems' = PostingItems \ {it}
              /\ Posting' = Posting
    PROVE  SemInv' /\ sem' \in Int
<1>1. sem \in Int /\ sem' = sem + 1
  BY DEF TypeOK, Post
<1>2. Cardinality(Posting') + Cardinality(PostingItems')
        = Cardinality(Posting) + Cardinality(PostingItems) - 1
  BY PostingFacts, PostingFactsNext, FS_RemoveElement
<1>3. Cardinality(Posting') + Cardinality(PostingItems') + 1
        <= Cardinality(Publishers) + Cardinality(Items)
  BY <1>2, PostingFacts, PostingFactsNext
<1>4. worker' = IF worker = "blocked" /\ sem + 1 <= 0 THEN "drain" ELSE worker
  BY DEF Post, Posted
<1>5. CASE sem > 0
  BY <1>1, <1>2, <1>4, <1>5, PostingFacts, PostingFactsNext DEF SemInv
<1>6. CASE sem <= 0
  BY <1>1, <1>3, <1>4, <1>6, PostingFacts, PostingFactsNext DEF SemInv
<1> QED BY <1>1, <1>5, <1>6

(* Detach posts for the worker to end: its caller is not about to post.    *)
LEMMA SemDetached ==
    ASSUME TypeOK, SemInv, NEW it \in Items, stage[it] # "post",
           Posting' = Posting, PostingItems' = PostingItems,
           \/ sem' = sem /\ (worker' = "blocked" <=> worker = "blocked")
           \/ sem <= 0 /\ sem' = sem + 1 /\ worker' # "blocked"
    PROVE  SemInv' /\ sem' \in Int
<1>1. sem \in Int /\ sem' \in Int
  BY DEF TypeOK
<1>2. CASE sem' = sem /\ (worker' = "blocked" <=> worker = "blocked")
  BY <1>1, <1>2, SemStays
<1>3. CASE sem <= 0 /\ sem' = sem + 1 /\ worker' # "blocked"
  <2>1. PostingItems \subseteq Items \ {it}
    BY DEF PostingItems
  <2>2. /\ IsFiniteSet(Items \ {it})
        /\ Cardinality(Items \ {it}) = Cardinality(Items) - 1
    BY DeliveryAssumption, FS_RemoveElement
  <2>3. Cardinality(PostingItems) <= Cardinality(Items) - 1
    BY <2>1, <2>2, FS_Subset
  <2>4. sem >= -1
    BY <1>1 DEF SemInv
  <2> QED BY <1>1, <1>3, <2>3, <2>4, PostingFacts, PostingFactsNext DEF SemInv
<1> QED BY <1>1, <1>2, <1>3
-----------------------------------------------------------------------------
LEMMA InitHolds == Init => IInv
<1> SUFFICES ASSUME Init PROVE IInv
  OBVIOUS
<1> USE DEF Init
<1>0. /\ << >> \in Seq(Items) /\ ToSet(<< >>) = {} /\ IsInjective(<< >>)
  BY DEF ToSet, IsInjective
<1>1. published \in Nat /\ generation = published % Wrap /\ generation \in 0..(Wrap - 1)
  BY DeliveryAssumption DEF Modulo
<1>2. LockInv
  BY <1>0, DeliveryAssumption DEF LockInv
<1>3. ListInv
  BY <1>0 DEF ListInv, Attached, OnQueue, CalledBack, InRun
<1>4. SemInv
  BY DEF SemInv
<1>5. SeenInv
  BY DEF SeenInv, Subscribed, Runnable, OnQueue, CalledBack
<1> DEFINE of(s) == {n \in 1..published : /\ n > published - QueueSize
                                          /\ Modulo(n - 1) % QueueSize = s}
<1>6. \A s \in 0..(QueueSize - 1) :
          data[s] = IF of(s) = {} THEN 0 ELSE CHOOSE n \in of(s) : TRUE
  OBVIOUS
<1>7. DOMAIN data = 0..(QueueSize - 1) /\ data = [s \in 0..(QueueSize - 1) |-> data[s]]
  OBVIOUS
<1> HIDE DEF Init
<1>8. DataInv
  <2>1. ASSUME NEW d \in 1..QueueSize, d <= published
        PROVE  data[Back(d) % QueueSize] = published - d + 1
    <3> DEFINE m == published - d + 1
               s == Back(d) % QueueSize
    <3>1. d \in Nat /\ d >= 1 /\ d <= QueueSize /\ d <= Wrap
      BY <2>1, QueueFacts
    <3>2. \A e \in 0..Wrap : Modulo(published - e) = Back(e)
      <4> SUFFICES ASSUME NEW e \in 0..Wrap PROVE Modulo(published - e) = Back(e)
        OBVIOUS
      <4>1. (published - e) % Wrap = IF e <= published % Wrap THEN (published % Wrap) - e
                                     ELSE (published % Wrap) - e + Wrap
        BY <1>1, QueueFacts, EarlierGeneration
      <4> QED BY <1>1, <4>1 DEF Modulo, Back
    <3>3. Back(d) \in 0..(Wrap - 1)
      BY <1>1, <3>1, QueueFacts DEF Back
    <3>4. s \in 0..(QueueSize - 1)
      BY <3>3, QueueFacts
    <3>5. m \in of(s)
      <4>1. m - 1 = published - d /\ m \in 1..published /\ m > published - QueueSize
        BY <1>1, <2>1, <3>1, QueueFacts
      <4> QED BY <3>1, <3>2, <4>1, QueueFacts
    <3>6. ASSUME NEW n \in of(s), n # m PROVE FALSE
      <4> DEFINE e == published + 1 - n
      <4>1. /\ e \in 1..QueueSize /\ e # d /\ n - 1 = published - e
        BY <1>1, <3>1, <3>6, QueueFacts
      <4> HIDE DEF e
      <4>2. e \in 0..Wrap /\ Back(e) \in 0..(Wrap - 1)
        BY <1>1, <4>1, QueueFacts DEF Back
      <4>3. Back(e) % QueueSize = Back(d) % QueueSize
        BY <3>2, <3>6, <4>1, <4>2
      <4>4. CASE e < d
        <5>1. d - e \in 1..(QueueSize - 1)
          BY <3>1, <4>1, <4>4, QueueFacts
        <5>2. Back(d) = IF d - e <= Back(e) THEN Back(e) - (d - e) ELSE Back(e) - (d - e) + Wrap
          BY <1>1, <3>1, <4>1, <4>4, QueueFacts, BackInTwo DEF Back
        <5> HIDE DEF Back
        <5> QED BY <4>2, <4>3, <5>1, <5>2, SlotsDiffer, QueueFacts
      <4>5. CASE d < e
        <5>1. e - d \in 1..(QueueSize - 1)
          BY <3>1, <4>1, <4>5, QueueFacts
        <5>2. Back(e) = IF e - d <= Back(d) THEN Back(d) - (e - d) ELSE Back(d) - (e - d) + Wrap
          BY <1>1, <3>1, <4>1, <4>5, QueueFacts, BackInTwo DEF Back
        <5> HIDE DEF Back
        <5> QED BY <3>3, <4>3, <5>1, <5>2, SlotsDiffer, QueueFacts
      <4> QED BY <3>1, <4>1, <4>4, <4>5, QueueFacts
    <3> HIDE DEF of, s, m
    <3>7. (CHOOSE n \in of(s) : TRUE) = m
      BY <3>5, <3>6
    <3> QED BY <1>6, <3>4, <3>5, <3>7 DEF s, m
  <2>2. valid \/ lock # Free => published > 0
    BY DEF Init
  <2>3. published > 0 => valid
    BY DEF Init
  <2> QED BY <2>1, <2>2, <2>3 DEF DataInv
<1>9. TypeOK
  <2>1. \A s \in 0..(QueueSize - 1) : data[s] \in Nat
    <3> SUFFICES ASSUME NEW s \in 0..(QueueSize - 1) PROVE data[s] \in Nat
      OBVIOUS
    <3>1. of(s) \subseteq Nat
      BY <1>1
    <3> HIDE DEF of
    <3> QED BY <1>6, <3>1
  <2>2. data \in [0..(QueueSize - 1) -> Nat]
    BY <1>7, <2>1
  <2>3. valid \in BOOLEAN /\ exit \in BOOLEAN /\ stop \in [Items -> BOOLEAN]
    <3>1. valid \in BOOLEAN
      BY <1>1 DEF Init
    <3> QED BY <3>1 DEF Init
  <2>4. last \in [Items -> 0..(Wrap - 1)]
    BY QueueFacts DEF Init
  <2>5. left \in 0..MaxMore /\ sem \in -1..(Cardinality(Publishers) + Cardinality(Items))
    BY DeliveryAssumption, PostingFacts DEF Init
  <2> QED BY <1>0, <1>1, <2>2, <2>3, <2>4, <2>5 DEF TypeOK, Init
<1> QED BY <1>2, <1>3, <1>4, <1>5, <1>8, <1>9 DEF IInv
-----------------------------------------------------------------------------
(* What a step that leaves its variables alone keeps.                      *)
LEMMA LockStays ==
    ASSUME LockInv, UNCHANGED <<pub, lock, calls, callbacks>>
    PROVE  LockInv'
BY DEF LockInv

LEMMA DataStays ==
    ASSUME DataInv, UNCHANGED <<data, generation, valid, lock, published>>
    PROVE  DataInv'
BY DEF DataInv, Back

LEMMA SeenStays ==
    ASSUME SeenInv, UNCHANGED <<generation, last, seen, published, left>>,
           \A it \in Items : stage'[it] \in Subscribed => stage[it] \in Subscribed,
           \A it \in Items : Pending(it)' = Pending(it),
           worker' = "copy" => worker = "copy" /\ work' = work
    PROVE  SeenInv'
<1>1. ASSUME NEW it \in Items, stage'[it] \in Subscribed
      PROVE  /\ seen'[it] <= published'
             /\ published' - seen'[it] + Pending(it)' + left' <= MaxMore + 1
             /\ Behind(it)' = published' - seen'[it] + Pending(it)'
  BY <1>1 DEF SeenInv, Behind
<1>2. worker' = "copy" => seen'[work'] < published'
  BY DEF SeenInv
<1> HIDE DEF Pending, Behind
<1> QED BY <1>1, <1>2 DEF SeenInv

(* The lists keep their members' owners.                                   *)
LEMMA ListStays ==
    ASSUME ListInv, UNCHANGED <<q, callbacks, attached, stage>>,
           worker' \in InRun => worker \in InRun /\ work' = work,
           worker' = "cleanup" => worker = "cleanup"
    PROVE  ListInv'
BY DEF ListInv, InRun
-----------------------------------------------------------------------------
(* The members of a sequence are among its elements' set.                  *)
LEMMA ListOf == ASSUME NEW S, NEW s \in Seq(S) PROVE ToSet(s) \subseteq S
BY LenProperties, ElementOfSeq DEF ToSet

(* IntrusiveQueue::push of an item whose owner has not taken it out.       *)
LEMMA PushKeeps ==
    ASSUME TypeOK, ListInv, NEW it \in Items, Push(it)
    PROVE  /\ q' \in Seq(Items) /\ IsInjective(q')
           /\ ToSet(q') = ToSet(q) \cup {it}
<1>1. q \in Seq(Items) /\ IsInjective(q)
  BY DEF TypeOK, ListInv
<1> QED BY <1>1, AppendFacts DEF Push

(* The changes of the other publishers' places.                            *)
LEMMA PlaceOf ==
    ASSUME TypeOK, NEW p \in Publishers, NEW v \in {"out", "call", "signal", "post"},
           pub' = [pub EXCEPT ![p] = v]
    PROVE  /\ pub' \in [Publishers -> {"out", "call", "signal", "post"}]
           /\ \A r \in Publishers : pub'[r] = IF r = p THEN v ELSE pub[r]
BY DEF TypeOK

(* A publisher inside write stays there, or leaves with all calls made.    *)
LEMMA LockMoves ==
    ASSUME TypeOK, LockInv, NEW p \in Publishers, pub[p] # "out",
           NEW v \in {"call", "signal", "post"}, pub' = [pub EXCEPT ![p] = v],
           UNCHANGED <<lock, callbacks>>, ToSet(calls') \subseteq ToSet(calls)
    PROVE  LockInv'
<1>1. \A r \in Publishers : pub'[r] = IF r = p THEN v ELSE pub[r]
  BY PlaceOf
<1>2. lock = p
  BY DEF LockInv
<1>3. lock' # Free
  BY <1>2, DeliveryAssumption
<1>4. \A r \in Publishers : pub'[r] # "out" <=> lock' = r
  BY <1>1, <1>2 DEF LockInv
<1> QED BY <1>3, <1>4 DEF LockInv

(* What the owners of items may have done.                                 *)
Stages == {"new", "refused", "attached", "subscribed", "registered", "signal", "post", "on",
           "unregistered", "deinit", "deleted"}

LEMMA StageOf ==
    ASSUME TypeOK, NEW it \in Items, NEW v \in Stages, stage' = [stage EXCEPT ![it] = v]
    PROVE  /\ stage' \in [Items -> Stages]
           /\ \A i \in Items : stage'[i] = IF i = it THEN v ELSE stage[i]
BY DEF TypeOK, Stages

(* A step of an owner that leaves the topic and the worker alone.          *)
LEMMA SeenOfOwner ==
    ASSUME SeenInv, NEW it \in Items,
           \A i \in Items : i # it => stage'[i] = stage[i],
           stage'[it] \in Subscribed => stage[it] \in Subscribed,
           UNCHANGED <<generation, last, seen, published, left, work>>,
           worker' = worker \/ (worker = "blocked" /\ worker' = "drain")
    PROVE  SeenInv'
<1>1. \A i \in Items : Pending(i)' = Pending(i)
  BY DEF Pending
<1>2. \A i \in Items : stage'[i] \in Subscribed => stage[i] \in Subscribed
  OBVIOUS
<1>3. worker' = "copy" => worker = "copy" /\ work' = work
  OBVIOUS
<1> QED BY <1>1, <1>2, <1>3, SeenStays
-----------------------------------------------------------------------------
(* Publishers.                                                             *)

LEMMA WriteKeeps == ASSUME IInv, NEW p \in Publishers, Write(p) PROVE IInv'
<1> USE DEF IInv
<1>1. /\ pub[p] = "out" /\ lock = Free /\ lock' = p /\ left > 0
      /\ published' = published + 1 /\ left' = left - 1
      /\ data' = [data EXCEPT ![generation % QueueSize] = published + 1]
      /\ generation' = (generation + 1) % Wrap
      /\ calls' = callbacks /\ pub' = [pub EXCEPT ![p] = "call"]
      /\ UNCHANGED <<valid, callbacks, last, stage, stop, q, sem, attached, exit, worker, work,
                     seen>>
  BY DEF Write, Modulo, queue, run
<1>2. /\ generation \in 0..(Wrap - 1) /\ published \in Nat /\ left \in 0..MaxMore
      /\ data \in [0..(QueueSize - 1) -> Nat]
  BY DEF TypeOK
<1>3. generation' = IF generation + 1 = Wrap THEN 0 ELSE generation + 1
  BY <1>1, <1>2, QueueFacts, Forward
<1>4. generation % QueueSize \in 0..(QueueSize - 1) /\ generation' \in 0..(Wrap - 1)
  BY <1>2, <1>3, QueueFacts
<1>5. TypeOK'
  <2>1. data' \in [0..(QueueSize - 1) -> Nat]
    BY <1>1, <1>2, <1>4
  <2>2. pub' \in [Publishers -> {"out", "call", "signal", "post"}]
    BY <1>1 DEF TypeOK
  <2>3. published' \in Nat /\ left' \in 0..MaxMore
    BY <1>1, <1>2, DeliveryAssumption
  <2> QED BY <1>1, <1>4, <2>1, <2>2, <2>3 DEF TypeOK
<1>6. LockInv'
  <2>1. \A r \in Publishers : pub'[r] = IF r = p THEN "call" ELSE pub[r]
    BY <1>1 DEF TypeOK
  <2> QED BY <1>1, <2>1, DeliveryAssumption DEF LockInv
<1>7. ListInv'
  BY <1>1, ListStays
<1>8. SemInv'
  <2>1. Posting' = Posting /\ PostingItems' = PostingItems
    BY <1>1 DEF Posting, PostingItems, TypeOK
  <2> QED BY <1>1, <2>1, SemStays
<1>9. DataInv'
  <2>1. ASSUME NEW d \in 1..QueueSize, d <= published'
        PROVE  data'[Back(d)' % QueueSize] = published' - d + 1
    <3>1. CASE d = 1
      <4>1. Back(d)' = generation
        BY <1>2, <1>3, <3>1, QueueFacts DEF Back
      <4> QED BY <1>1, <1>2, <1>4, <3>1, <4>1
    <3>2. CASE d # 1
      <4> DEFINE e == d - 1
      <4>1. e \in 1..(QueueSize - 1) /\ e <= published /\ e \in 1..QueueSize /\ e < Wrap
        BY <1>1, <1>2, <2>1, <3>2, QueueFacts
      <4>2. Back(d)' = Back(e) /\ Back(e) \in 0..(Wrap - 1)
        BY <1>2, <1>3, <4>1, QueueFacts DEF Back
      <4>3. Back(e) % QueueSize # generation % QueueSize
        BY <1>2, <4>1, SlotsDiffer, QueueFacts DEF Back
      <4>4. Back(e) % QueueSize \in 0..(QueueSize - 1)
        BY <4>2, QueueFacts
      <4>5. data'[Back(e) % QueueSize] = data[Back(e) % QueueSize]
        BY <1>1, <1>2, <4>3, <4>4
      <4>6. data[Back(e) % QueueSize] = published - e + 1
        BY <4>1 DEF DataInv
      <4>7. published - e + 1 = published' - d + 1
        BY <1>1, <1>2, QueueFacts
      <4> QED BY <4>2, <4>5, <4>6, <4>7
    <3> QED BY <3>1, <3>2
  <2> QED BY <1>1, <1>2, <2>1, DeliveryAssumption DEF DataInv
<1>10. SeenInv'
  <2>1. ASSUME NEW it \in Items, stage'[it] \in Subscribed
        PROVE  /\ seen'[it] <= published'
               /\ published' - seen'[it] + Pending(it)' + left' <= MaxMore + 1
               /\ Behind(it)' = published' - seen'[it] + Pending(it)'
    <3>1. /\ seen[it] <= published
          /\ published - seen[it] + Pending(it) + left <= MaxMore + 1
          /\ Behind(it) = published - seen[it] + Pending(it)
      BY <1>1, <2>1 DEF SeenInv
    <3>2. Pending(it)' = Pending(it) /\ Pending(it) \in 0..1
      BY <1>1 DEF Pending
    <3>3. /\ seen[it] \in Nat /\ last[it] \in 0..(Wrap - 1)
          /\ MaxMore \in Nat /\ MaxMore + 1 < Wrap
      BY DeliveryAssumption DEF TypeOK
    <3>4. Behind(it) + 1 < Wrap
      <4> HIDE DEF Behind, Pending
      <4>1. left \in Nat /\ left >= 1 /\ Wrap \in Nat
        BY <1>1, <1>2, <3>3, QueueFacts
      <4> QED BY <1>2, <3>1, <3>2, <3>3, <4>1
    <3>5. Behind(it)' = Behind(it) + 1
      <4>1. last'[it] = last[it] /\ Wrap \in Nat
        BY <1>1, QueueFacts
      <4>2. Behind(it)' = IF last[it] <= generation' THEN generation' - last[it]
                          ELSE generation' - last[it] + Wrap
        BY <4>1 DEF Behind
      <4> QED BY <1>2, <1>3, <3>3, <3>4, <4>1, <4>2 DEF Behind
    <3> HIDE DEF Behind, Pending
    <3> QED BY <1>1, <1>2, <3>1, <3>2, <3>3, <3>5
  <2>2. worker' = "copy" => seen'[work'] < published'
    <3> SUFFICES ASSUME worker = "copy" PROVE seen[work] < published + 1
      BY <1>1
    <3>1. work \in Items
      BY DEF ListInv, InRun
    <3> QED BY <1>2, <3>1 DEF SeenInv, TypeOK
  <2> HIDE DEF Behind, Pending
  <2> QED BY <2>1, <2>2 DEF SeenInv
<1> QED BY <1>5, <1>6, <1>7, <1>8, <1>9, <1>10

LEMMA CallKeeps == ASSUME IInv, NEW p \in Publishers, Call(p) PROVE IInv'
<1> DEFINE it == Head(calls)
<1> USE DEF IInv
<1>1. /\ pub[p] = "call" /\ calls # << >> /\ calls' = Tail(calls)
      /\ \/ Push(it) /\ pub' = [pub EXCEPT ![p] = "signal"]
         \/ UNCHANGED <<q, pub>>
      /\ UNCHANGED <<data, generation, valid, lock, callbacks, last, stage, stop, sem, attached,
                     exit, worker, work, published, left, seen>>
  BY DEF Call, node, run, count
<1>2. calls \in Seq(Items)
  BY DEF TypeOK
<1>3. /\ it \in Items /\ it \in ToSet(calls) /\ Tail(calls) \in Seq(Items)
      /\ ToSet(Tail(calls)) \subseteq ToSet(calls)
  BY <1>1, <1>2, TailFacts
<1>4. stage[it] \in CalledBack
  BY <1>3 DEF LockInv, ListInv
<1> HIDE DEF it
<1>5. /\ q' \in Seq(Items) /\ IsInjective(q')
      /\ ToSet(q') \subseteq ToSet(q) \cup {it}
  <2>1. CASE Push(it)
    BY <1>3, <2>1, PushKeeps
  <2>2. CASE UNCHANGED q
    BY <2>2 DEF TypeOK, ListInv
  <2> QED BY <1>1, <2>1, <2>2
<1>6. /\ pub' \in [Publishers -> {"out", "call", "signal", "post"}]
      /\ Posting' = Posting
  BY <1>1, PlaceOf DEF TypeOK, Posting
<1>7. TypeOK'
  BY <1>1, <1>3, <1>5, <1>6 DEF TypeOK
<1>8. LockInv'
  <2>1. CASE pub' = [pub EXCEPT ![p] = "signal"]
    BY <1>1, <1>3, <2>1, LockMoves
  <2>2. CASE pub' = pub
    <3>1. lock = p /\ lock # Free
      BY <1>1, DeliveryAssumption DEF LockInv
    <3> QED BY <1>1, <1>3, <2>2, <3>1 DEF LockInv
  <2> QED BY <1>1, <2>1, <2>2
<1>9. ListInv'
  BY <1>1, <1>4, <1>5 DEF ListInv, OnQueue
<1>10. SemInv'
  <2>1. PostingItems' = PostingItems
    BY <1>1 DEF PostingItems
  <2> QED BY <1>1, <1>6, <2>1, SemStays
<1>11. DataInv'
  BY <1>1, DataStays
<1>12. SeenInv'
  <2>1. \A i \in Items : Pending(i)' = Pending(i)
    BY <1>1 DEF Pending
  <2> QED BY <1>1, <2>1, SeenStays
<1> QED BY <1>7, <1>8, <1>9, <1>10, <1>11, <1>12

LEMMA SignalKeeps == ASSUME IInv, NEW p \in Publishers, Signal(p) PROVE IInv'
<1> USE DEF IInv
<1>1. /\ pub[p] = "signal"
      /\ \/ sem <= 0 /\ pub' = [pub EXCEPT ![p] = "post"]
         \/ pub' = [pub EXCEPT ![p] = "call"]
      /\ UNCHANGED <<data, generation, valid, lock, callbacks, calls, last, stage, stop, q, sem,
                     attached, exit, worker, work, published, left, seen>>
  BY DEF Signal, NeedsPost, node, queue, run, count
<1>2. TypeOK'
  <2>1. pub' \in [Publishers -> {"out", "call", "signal", "post"}]
    BY <1>1, PlaceOf
  <2> QED BY <1>1, <2>1 DEF TypeOK
<1>3. LockInv'
  BY <1>1, LockMoves
<1>4. ListInv'
  BY <1>1, ListStays
<1>5. SemInv'
  <2>1. CASE sem <= 0
    BY <1>1, <2>1, SemLow
  <2>2. CASE pub' = [pub EXCEPT ![p] = "call"]
    <3>1. Posting' = Posting /\ PostingItems' = PostingItems
      BY <1>1, <2>2, PlaceOf DEF Posting, PostingItems
    <3> QED BY <1>1, <3>1, SemStays
  <2> QED BY <1>1, <2>1, <2>2
<1>6. DataInv'
  BY <1>1, DataStays
<1>7. SeenInv'
  <2>1. \A i \in Items : Pending(i)' = Pending(i)
    BY <1>1 DEF Pending
  <2> QED BY <1>1, <2>1, SeenStays
<1> QED BY <1>2, <1>3, <1>4, <1>5, <1>6, <1>7

LEMMA PostWorkKeeps == ASSUME IInv, NEW p \in Publishers, PostWork(p) PROVE IInv'
<1> USE DEF IInv
<1>1. /\ pub[p] = "post" /\ Post /\ pub' = [pub EXCEPT ![p] = "call"]
      /\ UNCHANGED <<data, generation, valid, lock, callbacks, calls, last, stage, stop, q,
                     attached, exit, work, published, left, seen>>
  BY DEF PostWork, node, count
<1>2. worker' = worker \/ (worker = "blocked" /\ worker' = "drain")
  BY <1>1, PostWakes DEF Post
<1>3. SemInv' /\ sem' \in Int
  <2>1. p \in Posting /\ Posting' = Posting \ {p} /\ PostingItems' = PostingItems
    BY <1>1, PlaceOf DEF Posting, PostingItems
  <2> QED BY <1>1, <2>1, SemPosted
<1>4. TypeOK'
  <2>1. pub' \in [Publishers -> {"out", "call", "signal", "post"}]
    BY <1>1, PlaceOf
  <2>2. sem' \in -1..(Cardinality(Publishers) + Cardinality(Items))
    BY <1>3, SemType
  <2>3. worker' \in InRun \cup {"loop", "blocked", "drain", "ended", "undefined"}
    BY <1>2 DEF TypeOK
  <2> QED BY <1>1, <2>1, <2>2, <2>3 DEF TypeOK
<1>5. LockInv'
  BY <1>1, LockMoves
<1>6. ListInv'
  BY <1>1, <1>2, ListStays DEF InRun
<1>7. DataInv'
  BY <1>1, DataStays
<1>8. SeenInv'
  <2>1. \A i \in Items : Pending(i)' = Pending(i)
    BY <1>1, <1>2 DEF Pending
  <2> QED BY <1>1, <1>2, <2>1, SeenStays
<1> QED BY <1>3, <1>4, <1>5, <1>6, <1>7, <1>8

LEMMA EndWriteKeeps == ASSUME IInv, NEW p \in Publishers, EndWrite(p) PROVE IInv'
<1> USE DEF IInv
<1>1. /\ pub[p] = "call" /\ calls = << >> /\ valid' = TRUE /\ lock' = Free
      /\ pub' = [pub EXCEPT ![p] = "out"]
      /\ UNCHANGED <<data, generation, callbacks, calls, last, stage, stop, q, sem, attached,
                     exit, worker, work, published, left, seen>>
  BY DEF EndWrite, queue, run, count
<1>2. /\ pub' \in [Publishers -> {"out", "call", "signal", "post"}]
      /\ \A r \in Publishers : pub'[r] = IF r = p THEN "out" ELSE pub[r]
  BY <1>1, PlaceOf
<1>3. TypeOK'
  BY <1>1, <1>2 DEF TypeOK
<1>4. lock = p /\ lock # Free
  BY <1>1, DeliveryAssumption DEF LockInv
<1>5. LockInv'
  BY <1>1, <1>2, <1>4, DeliveryAssumption DEF LockInv
<1>6. ListInv'
  BY <1>1, ListStays
<1>7. SemInv'
  <2>1. Posting' = Posting /\ PostingItems' = PostingItems
    BY <1>1, <1>2 DEF Posting, PostingItems
  <2> QED BY <1>1, <2>1, SemStays
<1>8. DataInv'
  BY <1>1, <1>4 DEF DataInv, Back
<1>9. SeenInv'
  <2>1. \A i \in Items : Pending(i)' = Pending(i)
    BY <1>1 DEF Pending
  <2> QED BY <1>1, <2>1, SeenStays
<1> QED BY <1>3, <1>5, <1>6, <1>7, <1>8, <1>9
-----------------------------------------------------------------------------
(* Owners.                                                                 *)

LEMMA AttachKeeps == ASSUME IInv, NEW it \in Items, Attach(it) PROVE IInv'
<1> USE DEF IInv
<1>1. /\ stage[it] = "new"
      /\ \/ stage' = [stage EXCEPT ![it] = "refused"] /\ UNCHANGED attached
         \/ stage' = [stage EXCEPT ![it] = "attached"] /\ attached' = attached \cup {it}
      /\ UNCHANGED <<data, generation, valid, lock, callbacks, pub, calls, last, stop, q, sem,
                     exit, worker, work, published, left, seen>>
  BY DEF Attach, node, run, count
<1>2. /\ stage' \in [Items -> Stages]
      /\ \A i \in Items : i # it => stage'[i] = stage[i]
      /\ stage'[it] \in {"refused", "attached"}
  BY <1>1, StageOf DEF Stages
<1>3. TypeOK'
  BY <1>1, <1>2 DEF TypeOK, Stages
<1>4. LockInv'
  BY <1>1, LockStays
<1>5. ListInv'
  <2>1. \A i \in ToSet(q) \cup ToSet(callbacks) : i # it
    BY <1>1 DEF ListInv, OnQueue, CalledBack
  <2>2. worker \in InRun => work # it
    BY <1>1 DEF ListInv, Runnable, OnQueue, CalledBack
  <2>3. ToSet(q) \cup ToSet(callbacks) \subseteq Items
    BY ListOf DEF TypeOK
  <2>4. \A i \in Items : i \in attached' <=> stage'[i] \in Attached
    <3>1. CASE stage' = [stage EXCEPT ![it] = "refused"] /\ UNCHANGED attached
      BY <1>1, <3>1, StageOf DEF ListInv, Attached, OnQueue, CalledBack, Stages
    <3>2. CASE stage' = [stage EXCEPT ![it] = "attached"] /\ attached' = attached \cup {it}
      BY <1>1, <3>2, StageOf DEF ListInv, Attached, OnQueue, CalledBack, Stages
    <3> QED BY <1>1, <3>1, <3>2
  <2> QED BY <1>1, <1>2, <2>1, <2>2, <2>3, <2>4 DEF ListInv
<1>6. SemInv'
  <2>1. Posting' = Posting /\ PostingItems' = PostingItems
    BY <1>1, <1>2 DEF Posting, PostingItems
  <2> QED BY <1>1, <2>1, SemStays
<1>7. DataInv'
  BY <1>1, DataStays
<1>8. SeenInv'
  BY <1>1, <1>2, SeenOfOwner DEF Subscribed, Runnable, OnQueue, CalledBack
<1> QED BY <1>3, <1>4, <1>5, <1>6, <1>7, <1>8

LEMMA SubscribeKeeps == ASSUME IInv, NEW it \in Items, Subscribe(it) PROVE IInv'
<1> USE DEF IInv
<1>1. /\ stage[it] = "attached" /\ lock = Free
      /\ last' = [last EXCEPT ![it] = IF valid THEN Modulo(generation - 1) ELSE generation]
      /\ seen' = [seen EXCEPT ![it] = IF valid THEN published - 1 ELSE published]
      /\ stage' = [stage EXCEPT ![it] = "subscribed"]
      /\ UNCHANGED <<data, generation, valid, lock, callbacks, pub, calls, stop, q, sem,
                     attached, exit, worker, work, published, left>>
  BY DEF Subscribe, node, queue, run, count
<1>2. /\ stage' \in [Items -> Stages]
      /\ \A i \in Items : stage'[i] = IF i = it THEN "subscribed" ELSE stage[i]
  BY <1>1, StageOf DEF Stages
<1>3. /\ generation \in 0..(Wrap - 1) /\ published \in Nat /\ left \in 0..MaxMore
      /\ Wrap \in Nat /\ Wrap >= 2 /\ MaxMore \in Nat
  BY DeliveryAssumption DEF TypeOK
<1>4. Modulo(generation - 1) = IF 1 <= generation THEN generation - 1 ELSE generation - 1 + Wrap
  BY <1>3, Backward DEF Modulo
<1>5. valid => published >= 1
  BY <1>3 DEF DataInv
<1>6. TypeOK'
  <2>1. last' \in [Items -> 0..(Wrap - 1)]
    BY <1>1, <1>3, <1>4 DEF TypeOK
  <2>2. seen' \in [Items -> Nat]
    BY <1>1, <1>3, <1>5 DEF TypeOK
  <2> QED BY <1>1, <1>2, <2>1, <2>2 DEF TypeOK, Stages
<1>7. LockInv'
  BY <1>1, LockStays
<1>8. worker \in InRun => work # it
  BY <1>1 DEF ListInv, Runnable, OnQueue, CalledBack
<1>9. ListInv'
  <2>1. \A i \in ToSet(q) \cup ToSet(callbacks) : i # it
    BY <1>1 DEF ListInv, OnQueue, CalledBack
  <2>2. ToSet(q) \cup ToSet(callbacks) \subseteq Items
    BY ListOf DEF TypeOK
  <2>3. \A i \in Items : i \in attached' <=> stage'[i] \in Attached
    BY <1>1, <1>2 DEF ListInv, Attached, OnQueue, CalledBack
  <2> QED BY <1>1, <1>2, <1>8, <2>1, <2>2, <2>3 DEF ListInv
<1>10. SemInv'
  <2>1. Posting' = Posting /\ PostingItems' = PostingItems
    BY <1>1, <1>2 DEF Posting, PostingItems
  <2> QED BY <1>1, <2>1, SemStays
<1>11. DataInv'
  BY <1>1, DataStays
<1>12. SeenInv'
  <2>1. ASSUME NEW i \in Items, stage'[i] \in Subscribed
        PROVE  /\ seen'[i] <= published'
               /\ published' - seen'[i] + Pending(i)' + left' <= MaxMore + 1
               /\ Behind(i)' = published' - seen'[i] + Pending(i)'
    <3>1. CASE i # it
      <4>1. /\ seen'[i] = seen[i] /\ last'[i] = last[i] /\ stage[i] \in Subscribed
            /\ Pending(i)' = Pending(i)
        BY <1>1, <1>2, <2>1, <3>1 DEF TypeOK, Pending
      <4> QED BY <1>1, <4>1 DEF SeenInv, Behind
    <3>2. CASE i = it
      <4>1. Pending(it)' = 0
        BY <1>1, <1>8 DEF Pending, InRun
      <4>2. /\ last'[it] = IF valid THEN Modulo(generation - 1) ELSE generation
            /\ seen'[it] = IF valid THEN published - 1 ELSE published
        BY <1>1 DEF TypeOK
      <4>3. Behind(it)' = IF last'[it] <= generation THEN generation - last'[it]
                          ELSE generation - last'[it] + Wrap
        BY <1>1 DEF Behind
      <4>4. Behind(it)' = published - seen'[it]
        BY <1>3, <1>4, <1>5, <4>2, <4>3
      <4> HIDE DEF Pending, Behind
      <4> QED BY <1>1, <1>3, <1>5, <3>2, <4>1, <4>2, <4>4
    <3> QED BY <3>1, <3>2
  <2>2. worker' = "copy" => seen'[work'] < published'
    <3> SUFFICES ASSUME worker = "copy" PROVE seen'[work] < published
      BY <1>1
    <3>1. work \in Items /\ work # it
      BY <1>8 DEF ListInv, InRun
    <3> QED BY <1>1, <3>1 DEF SeenInv, TypeOK
  <2> HIDE DEF Behind, Pending
  <2> QED BY <2>1, <2>2 DEF SeenInv
<1> QED BY <1>6, <1>7, <1>9, <1>10, <1>11, <1>12

LEMMA RegisterKeeps == ASSUME IInv, NEW it \in Items, Register(it) PROVE IInv'
<1> USE DEF IInv
<1>1. /\ stage[it] = "subscribed" /\ lock = Free
      /\ callbacks' = <<it>> \o callbacks
      /\ stage' = [stage EXCEPT ![it] = "registered"]
      /\ UNCHANGED <<data, generation, valid, lock, pub, calls, last, stop, q, sem, attached,
                     exit, worker, work, published, left, seen>>
  BY DEF Register, queue, run, count
<1>2. /\ stage' \in [Items -> Stages]
      /\ \A i \in Items : stage'[i] = IF i = it THEN "registered" ELSE stage[i]
  BY <1>1, StageOf DEF Stages
<1>3. /\ callbacks' \in Seq(Items) /\ IsInjective(callbacks')
      /\ ToSet(callbacks') = ToSet(callbacks) \cup {it}
  <2>1. callbacks \in Seq(Items) /\ IsInjective(callbacks) /\ it \notin ToSet(callbacks)
    BY <1>1 DEF TypeOK, ListInv, CalledBack
  <2> QED BY <1>1, <2>1, ConsFacts
<1>4. TypeOK'
  BY <1>1, <1>2, <1>3 DEF TypeOK, Stages
<1>5. LockInv'
  BY <1>1, <1>3 DEF LockInv
<1>6. ListInv'
  <2>1. worker \in InRun => work # it
    BY <1>1 DEF ListInv, Runnable, OnQueue, CalledBack
  <2>2. ToSet(q) \cup ToSet(callbacks) \subseteq Items
    BY ListOf DEF TypeOK
  <2>3. \A i \in ToSet(q') : stage'[i] \in OnQueue
    BY <1>1, <1>2, <2>2 DEF ListInv, OnQueue, CalledBack
  <2>4. \A i \in ToSet(callbacks') : stage'[i] \in CalledBack
    BY <1>2, <1>3, <2>2 DEF ListInv, CalledBack
  <2>5. \A i \in Items : i \in attached' <=> stage'[i] \in Attached
    BY <1>1, <1>2 DEF ListInv, Attached, OnQueue, CalledBack
  <2>6. worker' \in InRun => work' \in Items /\ stage'[work'] \in Runnable
    BY <1>1, <1>2, <2>1 DEF ListInv
  <2>7. worker' = "cleanup" => work' \notin ToSet(callbacks')
    BY <1>1, <1>3, <2>1 DEF ListInv, InRun
  <2> QED BY <1>1, <1>3, <2>3, <2>4, <2>5, <2>6, <2>7 DEF ListInv
<1>7. SemInv'
  <2>1. Posting' = Posting /\ PostingItems' = PostingItems
    BY <1>1, <1>2 DEF Posting, PostingItems
  <2> QED BY <1>1, <2>1, SemStays
<1>8. DataInv'
  BY <1>1, DataStays
<1>9. SeenInv'
  BY <1>1, <1>2, SeenOfOwner DEF Subscribed
<1> QED BY <1>4, <1>5, <1>6, <1>7, <1>8, <1>9

(* A step of an owner that starts or stops its item without touching the   *)
(* callbacks and the attached items.                                       *)
LEMMA ListOfOwner ==
    ASSUME TypeOK, ListInv, NEW it \in Items, NEW v \in CalledBack,
           stage[it] \in CalledBack, stage' = [stage EXCEPT ![it] = v],
           IsInjective(q'), ToSet(q') \subseteq ToSet(q) \cup {it},
           UNCHANGED <<callbacks, attached, work>>,
           worker' = worker \/ (worker = "blocked" /\ worker' = "drain")
    PROVE  ListInv'
<1>1. \A i \in Items : stage'[i] = IF i = it THEN v ELSE stage[i]
  BY DEF TypeOK
<1>2. ToSet(q) \cup ToSet(callbacks) \subseteq Items
  BY ListOf DEF TypeOK
<1>3. \A i \in ToSet(q') : stage'[i] \in OnQueue
  BY <1>1, <1>2 DEF ListInv, OnQueue
<1>4. \A i \in ToSet(callbacks') : stage'[i] \in CalledBack
  BY <1>1, <1>2 DEF ListInv
<1>5. \A i \in Items : i \in attached' <=> stage'[i] \in Attached
  BY <1>1 DEF ListInv, Attached, OnQueue
<1>6. worker' \in InRun => work' \in Items /\ stage'[work'] \in Runnable
  BY <1>1 DEF ListInv, InRun, Runnable, OnQueue
<1>7. worker' = "cleanup" => work' \notin ToSet(callbacks')
  BY DEF ListInv
<1> QED BY <1>3, <1>4, <1>5, <1>6, <1>7 DEF ListInv

LEMMA ScheduleNowKeeps == ASSUME IInv, NEW it \in Items, ScheduleNow(it) PROVE IInv'
<1> USE DEF IInv
<1>1. /\ stage[it] = "registered" /\ Push(it)
      /\ stage' = [stage EXCEPT ![it] = "signal"]
      /\ UNCHANGED <<data, generation, valid, lock, callbacks, pub, calls, last, stop, sem,
                     attached, exit, worker, work, published, left, seen>>
  BY DEF ScheduleNow, node, run, count
<1>2. /\ stage' \in [Items -> Stages]
      /\ \A i \in Items : stage'[i] = IF i = it THEN "signal" ELSE stage[i]
  BY <1>1, StageOf DEF Stages
<1>3. /\ q' \in Seq(Items) /\ IsInjective(q') /\ ToSet(q') = ToSet(q) \cup {it}
  BY <1>1, PushKeeps
<1>4. TypeOK'
  BY <1>1, <1>2, <1>3 DEF TypeOK, Stages
<1>5. LockInv'
  BY <1>1, LockStays
<1>6. ListInv'
  BY <1>1, <1>3, ListOfOwner DEF CalledBack
<1>7. SemInv'
  <2>1. Posting' = Posting /\ PostingItems' = PostingItems
    BY <1>1, <1>2 DEF Posting, PostingItems
  <2> QED BY <1>1, <2>1, SemStays
<1>8. DataInv'
  BY <1>1, DataStays
<1>9. SeenInv'
  BY <1>1, <1>2, SeenOfOwner DEF Subscribed, Runnable, OnQueue, CalledBack
<1> QED BY <1>4, <1>5, <1>6, <1>7, <1>8, <1>9

LEMMA SignalStartKeeps == ASSUME IInv, NEW it \in Items, SignalStart(it) PROVE IInv'
<1> USE DEF IInv
<1>1. PICK v \in {"post", "on"} :
      /\ stage[it] = "signal" /\ stage' = [stage EXCEPT ![it] = v]
      /\ v = "post" => sem <= 0
      /\ UNCHANGED <<data, generation, valid, lock, callbacks, pub, calls, last, stop, q, sem,
                     attached, exit, worker, work, published, left, seen>>
  BY DEF SignalStart, NeedsPost, node, queue, run, count
<1>2. /\ stage' \in [Items -> Stages]
      /\ \A i \in Items : stage'[i] = IF i = it THEN v ELSE stage[i]
  BY <1>1, StageOf DEF Stages
<1>4. TypeOK'
  BY <1>1, <1>2 DEF TypeOK, Stages
<1>5. LockInv'
  BY <1>1, LockStays
<1>6. ListInv'
  <2>1. IsInjective(q') /\ ToSet(q') \subseteq ToSet(q) \cup {it}
    BY <1>1 DEF ListInv
  <2> QED BY <1>1, <2>1, ListOfOwner DEF CalledBack
<1>7. SemInv'
  <2>1. CASE v = "post"
    BY <1>1, <2>1, SemLow
  <2>2. CASE v = "on"
    <3>1. Posting' = Posting /\ PostingItems' = PostingItems
      BY <1>1, <1>2, <2>2 DEF Posting, PostingItems
    <3> QED BY <1>1, <3>1, SemStays
  <2> QED BY <1>1, <2>1, <2>2
<1>8. DataInv'
  BY <1>1, DataStays
<1>9. SeenInv'
  BY <1>1, <1>2, SeenOfOwner DEF Subscribed, Runnable, OnQueue, CalledBack
<1> QED BY <1>4, <1>5, <1>6, <1>7, <1>8, <1>9

LEMMA PostStartKeeps == ASSUME IInv, NEW it \in Items, PostStart(it) PROVE IInv'
<1> USE DEF IInv
<1>1. /\ stage[it] = "post" /\ Post /\ stage' = [stage EXCEPT ![it] = "on"]
      /\ UNCHANGED <<data, generation, valid, lock, callbacks, pub, calls, last, stop, q,
                     attached, exit, work, published, left, seen>>
  BY DEF PostStart, node, count
<1>2. /\ stage' \in [Items -> Stages]
      /\ \A i \in Items : stage'[i] = IF i = it THEN "on" ELSE stage[i]
  BY <1>1, StageOf DEF Stages
<1>3. worker' = worker \/ (worker = "blocked" /\ worker' = "drain")
  BY <1>1, PostWakes DEF Post
<1>4. SemInv' /\ sem' \in Int
  <2>1. it \in PostingItems /\ PostingItems' = PostingItems \ {it} /\ Posting' = Posting
    BY <1>1, <1>2 DEF Posting, PostingItems
  <2> QED BY <1>1, <2>1, SemPosted
<1>5. TypeOK'
  <2>1. sem' \in -1..(Cardinality(Publishers) + Cardinality(Items))
    BY <1>4, SemType
  <2>2. worker' \in InRun \cup {"loop", "blocked", "drain", "ended", "undefined"}
    BY <1>3 DEF TypeOK
  <2> QED BY <1>1, <1>2, <2>1, <2>2 DEF TypeOK, Stages
<1>6. LockInv'
  BY <1>1, LockStays
<1>7. ListInv'
  <2>1. IsInjective(q') /\ ToSet(q') \subseteq ToSet(q) \cup {it}
    BY <1>1 DEF ListInv
  <2> QED BY <1>1, <1>3, <2>1, ListOfOwner DEF CalledBack
<1>8. DataInv'
  BY <1>1, DataStays
<1>9. SeenInv'
  BY <1>1, <1>2, <1>3, SeenOfOwner DEF Subscribed, Runnable, OnQueue, CalledBack
<1> QED BY <1>4, <1>5, <1>6, <1>7, <1>8, <1>9

LEMMA RequestStopKeeps == ASSUME IInv, NEW it \in Items, RequestStop(it) PROVE IInv'
<1> USE DEF IInv
<1>1. /\ stop' = [stop EXCEPT ![it] = TRUE]
      /\ UNCHANGED <<data, generation, valid, lock, callbacks, pub, calls, last, stage, q, sem,
                     attached, exit, worker, work, published, left, seen>>
  BY DEF RequestStop, node, queue, run, count
<1>2. TypeOK'
  <2>1. stop' \in [Items -> BOOLEAN]
    BY <1>1 DEF TypeOK
  <2> QED BY <1>1, <2>1 DEF TypeOK
<1>3. LockInv'
  BY <1>1, LockStays
<1>4. ListInv'
  BY <1>1, ListStays
<1>5. SemInv'
  <2>1. Posting' = Posting /\ PostingItems' = PostingItems
    BY <1>1 DEF Posting, PostingItems
  <2> QED BY <1>1, <2>1, SemStays
<1>6. DataInv'
  BY <1>1, DataStays
<1>7. SeenInv'
  BY <1>1, SeenOfOwner
<1> QED BY <1>2, <1>3, <1>4, <1>5, <1>6, <1>7

LEMMA StopUnregisterKeeps == ASSUME IInv, NEW it \in Items, StopUnregister(it) PROVE IInv'
<1> USE DEF IInv
<1>1. /\ stage[it] = "on" /\ lock = Free
      /\ callbacks' = RemoveFirst(callbacks, it)
      /\ stage' = [stage EXCEPT ![it] = "unregistered"]
      /\ UNCHANGED <<data, generation, valid, lock, pub, calls, last, stop, q, sem, attached,
                     exit, worker, work, published, left, seen>>
  BY DEF StopUnregister, queue, run, count
<1>2. /\ stage' \in [Items -> Stages]
      /\ \A i \in Items : stage'[i] = IF i = it THEN "unregistered" ELSE stage[i]
  BY <1>1, StageOf DEF Stages
<1>3. /\ callbacks' \in Seq(Items) /\ IsInjective(callbacks')
      /\ ToSet(callbacks') = ToSet(callbacks) \ {it}
  BY <1>1, RemoveFacts DEF TypeOK, ListInv
<1>4. TypeOK'
  BY <1>1, <1>2, <1>3 DEF TypeOK, Stages
<1>5. LockInv'
  <2>1. calls' = << >> /\ ToSet(calls') = {}
    BY <1>1 DEF LockInv, ToSet
  <2> QED BY <1>1, <2>1 DEF LockInv
<1>6. ListInv'
  <2>1. ToSet(q) \cup ToSet(callbacks) \subseteq Items
    BY ListOf DEF TypeOK
  <2>2. \A i \in ToSet(q') : stage'[i] \in OnQueue
    BY <1>1, <1>2, <2>1 DEF ListInv, OnQueue
  <2>3. \A i \in ToSet(callbacks') : stage'[i] \in CalledBack
    BY <1>2, <1>3, <2>1 DEF ListInv
  <2>4. \A i \in Items : i \in attached' <=> stage'[i] \in Attached
    BY <1>1, <1>2 DEF ListInv, Attached, OnQueue, CalledBack
  <2>5. worker' \in InRun => work' \in Items /\ stage'[work'] \in Runnable
    BY <1>1, <1>2 DEF ListInv, Runnable, OnQueue
  <2>6. worker' = "cleanup" => work' \notin ToSet(callbacks')
    BY <1>1, <1>3 DEF ListInv
  <2> QED BY <1>1, <1>3, <2>2, <2>3, <2>4, <2>5, <2>6 DEF ListInv
<1>7. SemInv'
  <2>1. Posting' = Posting /\ PostingItems' = PostingItems
    BY <1>1, <1>2 DEF Posting, PostingItems
  <2> QED BY <1>1, <2>1, SemStays
<1>8. DataInv'
  BY <1>1, DataStays
<1>9. SeenInv'
  BY <1>1, <1>2, SeenOfOwner DEF Subscribed, Runnable, OnQueue, CalledBack
<1> QED BY <1>4, <1>5, <1>6, <1>7, <1>8, <1>9

LEMMA StopDeinitKeeps == ASSUME IInv, NEW it \in Items, StopDeinit(it) PROVE IInv'
<1> USE DEF IInv
<1>1. /\ stage[it] = "unregistered" /\ q' = RemoveFirst(q, it)
      /\ attached' = attached \ {it} /\ exit' \in BOOLEAN
      /\ sem' = sem \/ (sem <= 0 /\ sem' = sem + 1)
      /\ IF sem' # sem THEN Posted ELSE worker' = worker
      /\ stage' = [stage EXCEPT ![it] = "deinit"]
      /\ UNCHANGED <<data, generation, valid, lock, callbacks, pub, calls, last, stop, work,
                     published, left, seen>>
  <2>1. exit' \in BOOLEAN
    BY Zenon DEF StopDeinit, Detach
  <2>2. sem' = sem \/ (sem <= 0 /\ sem' = sem + 1)
    BY DEF StopDeinit, Detach, NeedsPost
  <2> QED BY <2>1, <2>2 DEF StopDeinit, Detach, Dequeue, node, count
<1>2. /\ stage' \in [Items -> Stages]
      /\ \A i \in Items : stage'[i] = IF i = it THEN "deinit" ELSE stage[i]
  BY <1>1, StageOf DEF Stages
<1>3. /\ q' \in Seq(Items) /\ IsInjective(q') /\ ToSet(q') = ToSet(q) \ {it}
  BY <1>1, RemoveFacts DEF TypeOK, ListInv
<1>4. worker' = worker \/ (worker = "blocked" /\ worker' = "drain")
  BY <1>1, PostWakes
<1>5. SemInv' /\ sem' \in Int
  <2>1. Posting' = Posting /\ PostingItems' = PostingItems
    BY <1>1, <1>2 DEF Posting, PostingItems
  <2>2. CASE sem' = sem
    BY <1>1, <2>1, <2>2, SemDetached
  <2>3. CASE sem' # sem
    <3>1. sem <= 0 /\ sem' = sem + 1 /\ sem \in Int
      BY <1>1, <2>3 DEF TypeOK
    <3>2. worker' = IF worker = "blocked" /\ sem + 1 <= 0 THEN "drain" ELSE worker
      BY <1>1, <2>3 DEF Posted
    <3>3. worker' # "blocked"
      BY <3>1, <3>2 DEF SemInv
    <3> QED BY <1>1, <2>1, <3>1, <3>3, SemDetached
  <2> QED BY <2>2, <2>3
<1>6. TypeOK'
  <2>1. sem' \in -1..(Cardinality(Publishers) + Cardinality(Items))
    BY <1>5, SemType
  <2>2. worker' \in InRun \cup {"loop", "blocked", "drain", "ended", "undefined"}
    BY <1>4 DEF TypeOK
  <2> QED BY <1>1, <1>2, <1>3, <2>1, <2>2 DEF TypeOK, Stages
<1>7. LockInv'
  BY <1>1, LockStays
<1>8. ListInv'
  <2>1. ToSet(q) \cup ToSet(callbacks) \subseteq Items
    BY ListOf DEF TypeOK
  <2>2. \A i \in ToSet(q') : stage'[i] \in OnQueue
    BY <1>2, <1>3, <2>1 DEF ListInv
  <2>3. \A i \in ToSet(callbacks') : stage'[i] \in CalledBack
    BY <1>1, <1>2, <2>1 DEF ListInv, CalledBack
  <2>4. \A i \in Items : i \in attached' <=> stage'[i] \in Attached
    BY <1>1, <1>2 DEF ListInv, Attached, OnQueue, CalledBack
  <2>5. worker' \in InRun => work' \in Items /\ stage'[work'] \in Runnable
    BY <1>1, <1>2, <1>4 DEF ListInv, Runnable, InRun
  <2>6. worker' = "cleanup" => work' \notin ToSet(callbacks')
    BY <1>1, <1>4 DEF ListInv
  <2> QED BY <1>1, <1>3, <2>2, <2>3, <2>4, <2>5, <2>6 DEF ListInv
<1>9. DataInv'
  BY <1>1, DataStays
<1>10. SeenInv'
  BY <1>1, <1>2, <1>4, SeenOfOwner DEF Subscribed, Runnable, OnQueue
<1> QED BY <1>5, <1>6, <1>7, <1>8, <1>9, <1>10

(* What is read of the other items when one is destroyed.                  *)
LEMMA DestroyedFacts ==
    ASSUME TypeOK, NEW it \in Items, Destroyed(it)
    PROVE  /\ stage' \in [Items -> Stages]
           /\ \A i \in Items : stage'[i] = IF i = it THEN "deleted" ELSE stage[i]
           /\ stop' \in [Items -> BOOLEAN]
           /\ last' \in [Items -> 0..(Wrap - 1)] /\ seen' \in [Items -> Nat]
           /\ \A i \in Items : i # it => last'[i] = last[i] /\ seen'[i] = seen[i]
<1>1. /\ stage' = [stage EXCEPT ![it] = "deleted"] /\ stop' = [stop EXCEPT ![it] = FALSE]
      /\ last' = [last EXCEPT ![it] = 0] /\ seen' = [seen EXCEPT ![it] = 0]
  BY DEF Destroyed
<1>2. /\ stage' \in [Items -> Stages]
      /\ \A i \in Items : stage'[i] = IF i = it THEN "deleted" ELSE stage[i]
  BY <1>1, StageOf DEF Stages
<1>3. stop' \in [Items -> BOOLEAN]
  BY <1>1 DEF TypeOK
<1>4. /\ last' \in [Items -> 0..(Wrap - 1)] /\ seen' \in [Items -> Nat]
      /\ \A i \in Items : i # it => last'[i] = last[i] /\ seen'[i] = seen[i]
  BY <1>1, QueueFacts DEF TypeOK
<1> QED BY <1>2, <1>3, <1>4

(* The other items' subscriptions are not touched, and the worker does not *)
(* go on with the one destroyed.                                           *)
LEMMA SeenOfOthers ==
    ASSUME TypeOK, SeenInv, NEW it \in Items, Destroyed(it),
           UNCHANGED <<generation, published, left>>,
           \A i \in Items : i # it => Pending(i)' = Pending(i),
           worker' = "copy" => worker = "copy" /\ work' = work /\ work \in Items /\ work # it
    PROVE  SeenInv'
<1>1. /\ \A i \in Items : stage'[i] = IF i = it THEN "deleted" ELSE stage[i]
      /\ \A i \in Items : i # it => last'[i] = last[i] /\ seen'[i] = seen[i]
  BY DestroyedFacts
<1>2. ASSUME NEW i \in Items, stage'[i] \in Subscribed
      PROVE  /\ seen'[i] <= published'
             /\ published' - seen'[i] + Pending(i)' + left' <= MaxMore + 1
             /\ Behind(i)' = published' - seen'[i] + Pending(i)'
  <2>1. i # it
    BY <1>1, <1>2 DEF Subscribed, Runnable, OnQueue, CalledBack
  <2>2. last'[i] = last[i] /\ seen'[i] = seen[i] /\ stage[i] \in Subscribed
    BY <1>1, <1>2, <2>1
  <2>3. Pending(i)' = Pending(i) /\ Behind(i)' = Behind(i)
    BY <2>1, <2>2 DEF Behind
  <2> QED BY <2>2, <2>3 DEF SeenInv
<1>3. worker' = "copy" => seen'[work'] < published'
  BY <1>1 DEF SeenInv
<1> HIDE DEF Pending, Behind
<1> QED BY <1>2, <1>3 DEF SeenInv

LEMMA DeleteKeeps == ASSUME IInv, NEW it \in Items, Delete(it) PROVE IInv'
<1> USE DEF IInv
<1>1. /\ stage[it] = "deinit" /\ Destroyed(it)
      /\ worker' = IF worker \in InRun /\ work = it THEN "undefined" ELSE worker
      /\ UNCHANGED <<data, generation, valid, lock, callbacks, pub, calls, q, sem, attached,
                     exit, work, published, left>>
  BY DEF Delete, Running, node, queue, count
<1>2. /\ stage' \in [Items -> Stages]
      /\ \A i \in Items : stage'[i] = IF i = it THEN "deleted" ELSE stage[i]
      /\ stop' \in [Items -> BOOLEAN]
      /\ last' \in [Items -> 0..(Wrap - 1)] /\ seen' \in [Items -> Nat]
  BY <1>1, DestroyedFacts
<1>3. TypeOK'
  BY <1>1, <1>2 DEF TypeOK, Stages
<1>4. LockInv'
  BY <1>1, LockStays
<1>5. worker' \in InRun => worker' = worker /\ work # it
  BY <1>1 DEF InRun
<1>6. ListInv'
  <2>1. \A i \in ToSet(q) \cup ToSet(callbacks) : i # it
    BY <1>1 DEF ListInv, OnQueue, CalledBack
  <2>2. ToSet(q) \cup ToSet(callbacks) \subseteq Items
    BY ListOf DEF TypeOK
  <2>3. \A i \in Items : i \in attached' <=> stage'[i] \in Attached
    BY <1>1, <1>2 DEF ListInv, Attached, OnQueue, CalledBack
  <2>4. worker' \in InRun => work' \in Items /\ stage'[work'] \in Runnable
    BY <1>1, <1>2, <1>5 DEF ListInv
  <2>5. worker' = "cleanup" => work' \notin ToSet(callbacks')
    BY <1>1, <1>5 DEF ListInv, InRun
  <2> QED BY <1>1, <1>2, <2>1, <2>2, <2>3, <2>4, <2>5 DEF ListInv
<1>7. SemInv'
  <2>1. Posting' = Posting /\ PostingItems' = PostingItems
    BY <1>1, <1>2 DEF Posting, PostingItems
  <2>2. worker' = "blocked" <=> worker = "blocked"
    BY <1>1 DEF InRun
  <2> QED BY <1>1, <2>1, <2>2, SemStays
<1>8. DataInv'
  BY <1>1, DataStays
<1>9. SeenInv'
  <2>1. \A i \in Items : i # it => Pending(i)' = Pending(i)
    BY <1>1 DEF Pending, InRun
  <2>2. worker' = "copy" => worker = "copy" /\ work' = work /\ work \in Items /\ work # it
    BY <1>1, <1>5 DEF ListInv, InRun
  <2> QED BY <1>1, <2>1, <2>2, SeenOfOthers
<1> QED BY <1>3, <1>4, <1>6, <1>7, <1>8, <1>9
-----------------------------------------------------------------------------
(* The worker.                                                             *)

LEMMA LoopKeeps == ASSUME IInv, Loop PROVE IInv'
<1> USE DEF IInv
<1>1. /\ worker = "loop"
      /\ \/ worker' = "ended" /\ sem' = sem
         \/ sem' = sem - 1 /\ worker' = IF sem - 1 < 0 THEN "blocked" ELSE "drain"
      /\ UNCHANGED <<data, generation, valid, lock, callbacks, pub, calls, last, stage, stop, q,
                     attached, exit, work, published, left, seen>>
  BY DEF Loop, node, count
<1>2. worker' \in {"ended", "blocked", "drain"}
  BY <1>1
<1>3. sem \in Int /\ sem >= 0
  BY <1>1 DEF TypeOK, SemInv
<1>4. Posting' = Posting /\ PostingItems' = PostingItems
  BY <1>1 DEF Posting, PostingItems
<1>5. SemInv' /\ sem' \in Int
  <2>1. CASE worker' = "ended" /\ sem' = sem
    BY <1>1, <1>3, <1>4, <2>1, SemStays
  <2>2. CASE sem' = sem - 1 /\ worker' = IF sem - 1 < 0 THEN "blocked" ELSE "drain"
    <3>1. sem' > 0 => sem' + Cardinality(Posting') + Cardinality(PostingItems')
                        <= Cardinality(Publishers) + Cardinality(Items)
      BY <1>3, <1>4, <2>2, PostingFacts DEF SemInv
    <3>2. IF worker' = "blocked" THEN sem' = -1 ELSE sem' >= 0
      BY <1>3, <2>2
    <3> QED BY <1>3, <2>2, <3>1, <3>2 DEF SemInv
  <2> QED BY <1>1, <2>1, <2>2
<1>6. TypeOK'
  <2>1. sem' \in -1..(Cardinality(Publishers) + Cardinality(Items))
    BY <1>5, SemType
  <2> QED BY <1>1, <1>2, <2>1 DEF TypeOK
<1>7. LockInv'
  BY <1>1, LockStays
<1>8. ListInv'
  BY <1>1, <1>2, ListStays DEF InRun
<1>9. DataInv'
  BY <1>1, DataStays
<1>10. SeenInv'
  <2>1. \A i \in Items : Pending(i)' = Pending(i)
    BY <1>1, <1>2 DEF Pending
  <2> QED BY <1>1, <1>2, <2>1, SeenStays
<1> QED BY <1>5, <1>6, <1>7, <1>8, <1>9, <1>10

LEMMA DrainKeeps == ASSUME IInv, Drain PROVE IInv'
<1> USE DEF IInv
<1>1. /\ worker = "drain"
      /\ \/ worker' = "loop" /\ UNCHANGED <<q, work>>
         \/ q # << >> /\ q' = Tail(q) /\ work' = Head(q) /\ worker' = "check_exit"
      /\ UNCHANGED <<data, generation, valid, lock, callbacks, pub, calls, last, stage, stop,
                     sem, attached, exit, published, left, seen>>
  BY DEF Drain, node, count
<1>2. worker' \in {"loop", "check_exit"}
  BY <1>1
<1>3. /\ q' \in Seq(Items) /\ IsInjective(q') /\ ToSet(q') \subseteq ToSet(q)
      /\ work' \in Items \cup {Nobody}
      /\ worker' = "check_exit" => work' \in Items /\ work' \in ToSet(q)
  <2>1. CASE worker' = "loop" /\ UNCHANGED <<q, work>>
    BY <2>1 DEF TypeOK, ListInv
  <2>2. CASE q # << >> /\ q' = Tail(q) /\ work' = Head(q) /\ worker' = "check_exit"
    BY <2>2, TailFacts DEF TypeOK, ListInv
  <2> QED BY <1>1, <2>1, <2>2
<1>4. TypeOK'
  BY <1>1, <1>2, <1>3 DEF TypeOK, InRun
<1>5. LockInv'
  BY <1>1, LockStays
<1>6. ListInv'
  <2>1. worker' \in InRun => work' \in Items /\ stage'[work'] \in Runnable
    BY <1>1, <1>2, <1>3 DEF ListInv, InRun, Runnable
  <2>2. worker' # "cleanup"
    BY <1>2
  <2> QED BY <1>1, <1>3, <2>1, <2>2 DEF ListInv
<1>7. SemInv'
  <2>1. Posting' = Posting /\ PostingItems' = PostingItems
    BY <1>1 DEF Posting, PostingItems
  <2> QED BY <1>1, <1>2, <2>1, SemStays
<1>8. DataInv'
  BY <1>1, DataStays
<1>9. SeenInv'
  <2>1. \A i \in Items : Pending(i)' = Pending(i)
    BY <1>1, <1>2 DEF Pending
  <2> QED BY <1>1, <1>2, <2>1, SeenStays
<1> QED BY <1>4, <1>5, <1>6, <1>7, <1>8, <1>9

LEMMA CheckExitKeeps == ASSUME IInv, CheckExit PROVE IInv'
<1> USE DEF IInv
<1>1. /\ worker = "check_exit" /\ worker' \in {"unregister", "updated"}
      /\ UNCHANGED <<data, generation, valid, lock, callbacks, pub, calls, last, stage, stop, q,
                     sem, attached, exit, work, published, left, seen>>
  BY DEF CheckExit, node, queue, count
<1>2. TypeOK'
  BY <1>1 DEF TypeOK, InRun
<1>3. LockInv'
  BY <1>1, LockStays
<1>4. ListInv'
  BY <1>1, ListStays DEF InRun
<1>5. SemInv'
  <2>1. Posting' = Posting /\ PostingItems' = PostingItems
    BY <1>1 DEF Posting, PostingItems
  <2> QED BY <1>1, <2>1, SemStays
<1>6. DataInv'
  BY <1>1, DataStays
<1>7. SeenInv'
  <2>1. \A i \in Items : Pending(i)' = Pending(i)
    BY <1>1 DEF Pending
  <2> QED BY <1>1, <2>1, SeenStays
<1> QED BY <1>2, <1>3, <1>4, <1>5, <1>6, <1>7

LEMMA UpdatedKeeps == ASSUME IInv, Updated PROVE IInv'
<1> USE DEF IInv
<1>1. /\ worker = "updated"
      /\ \/ generation # last[work] /\ worker' = "copy" /\ work' = work
         \/ worker' = "drain" /\ work' = Nobody
      /\ UNCHANGED <<data, generation, valid, lock, callbacks, pub, calls, last, stage, stop, q,
                     sem, attached, exit, published, left, seen>>
  BY DEF Updated, node, queue, count
<1>2. worker' \in {"copy", "drain"}
  BY <1>1
<1>3. TypeOK'
  BY <1>1, <1>2 DEF TypeOK, InRun
<1>4. LockInv'
  BY <1>1, LockStays
<1>5. ListInv'
  BY <1>1, ListStays DEF InRun
<1>6. SemInv'
  <2>1. Posting' = Posting /\ PostingItems' = PostingItems
    BY <1>1 DEF Posting, PostingItems
  <2> QED BY <1>1, <1>2, <2>1, SemStays
<1>7. DataInv'
  BY <1>1, DataStays
<1>8. SeenInv'
  <2>1. \A i \in Items : Pending(i)' = Pending(i)
    BY <1>1, <1>2 DEF Pending
  <2>2. ASSUME NEW i \in Items, stage'[i] \in Subscribed
        PROVE  /\ seen'[i] <= published'
               /\ published' - seen'[i] + Pending(i)' + left' <= MaxMore + 1
               /\ Behind(i)' = published' - seen'[i] + Pending(i)'
    BY <1>1, <2>1, <2>2 DEF SeenInv, Behind
  <2>3. worker' = "copy" => seen'[work'] < published'
    <3> SUFFICES ASSUME worker' = "copy" PROVE seen[work] < published
      BY <1>1
    <3>1. generation # last[work] /\ work \in Items /\ stage[work] \in Subscribed
      BY <1>1 DEF ListInv, InRun, Subscribed
    <3>2. Pending(work) = 0
      BY <1>1 DEF Pending
    <3>3. Behind(work) = published - seen[work] /\ seen[work] <= published
          /\ seen[work] \in Nat /\ published \in Nat
      BY <3>1, <3>2 DEF SeenInv, TypeOK
    <3>4. Behind(work) # 0
      <4>1. generation \in 0..(Wrap - 1) /\ last[work] \in 0..(Wrap - 1) /\ Wrap \in Nat
        BY <3>1, QueueFacts DEF TypeOK
      <4> QED BY <3>1, <4>1 DEF Behind
    <3> HIDE DEF Behind
    <3> QED BY <3>3, <3>4
  <2> HIDE DEF Pending, Behind
  <2> QED BY <2>2, <2>3 DEF SeenInv
<1> QED BY <1>3, <1>4, <1>5, <1>6, <1>7, <1>8

LEMMA UnregisterKeeps == ASSUME IInv, Unregister PROVE IInv'
<1> USE DEF IInv
<1>1. /\ worker = "unregister" /\ lock = Free /\ worker' = "cleanup"
      /\ callbacks' = RemoveFirst(callbacks, work)
      /\ UNCHANGED <<data, generation, valid, lock, pub, calls, last, stage, stop, q, sem,
                     attached, exit, work, published, left, seen>>
  BY DEF Unregister, queue, count
<1>2. /\ callbacks' \in Seq(Items) /\ IsInjective(callbacks')
      /\ ToSet(callbacks') = ToSet(callbacks) \ {work}
  BY <1>1, RemoveFacts DEF TypeOK, ListInv
<1>3. TypeOK'
  BY <1>1, <1>2 DEF TypeOK, InRun
<1>4. LockInv'
  <2>1. calls' = << >> /\ ToSet(calls') = {}
    BY <1>1 DEF LockInv, ToSet
  <2> QED BY <1>1, <2>1 DEF LockInv
<1>5. ListInv'
  BY <1>1, <1>2 DEF ListInv, InRun
<1>6. SemInv'
  <2>1. Posting' = Posting /\ PostingItems' = PostingItems
    BY <1>1 DEF Posting, PostingItems
  <2> QED BY <1>1, <2>1, SemStays
<1>7. DataInv'
  BY <1>1, DataStays
<1>8. SeenInv'
  <2>1. \A i \in Items : Pending(i)' = Pending(i)
    BY <1>1 DEF Pending
  <2> QED BY <1>1, <2>1, SeenStays
<1> QED BY <1>3, <1>4, <1>5, <1>6, <1>7, <1>8

LEMMA CleanupKeeps == ASSUME IInv, Cleanup PROVE IInv'
<1> USE DEF IInv
<1>1. /\ worker = "cleanup" /\ stage[work] = "on" /\ worker' = "drain" /\ work' = Nobody
      /\ q' = RemoveFirst(q, work) /\ attached' = attached \ {work}
      /\ Destroyed(work)
      /\ UNCHANGED <<data, generation, valid, lock, callbacks, pub, calls, published, left>>
  BY DEF Cleanup, Dequeue, Detach, node, count
<1>2. exit' \in BOOLEAN
  BY Zenon DEF Cleanup, Detach
<1>3. sem' = sem \/ (sem <= 0 /\ sem' = sem + 1)
  BY DEF Cleanup, Detach, NeedsPost
<1>4. work \in Items /\ work \notin ToSet(callbacks)
  BY <1>1 DEF ListInv, InRun
<1>5. /\ stage' \in [Items -> Stages]
      /\ \A i \in Items : stage'[i] = IF i = work THEN "deleted" ELSE stage[i]
      /\ stop' \in [Items -> BOOLEAN]
      /\ last' \in [Items -> 0..(Wrap - 1)] /\ seen' \in [Items -> Nat]
  BY <1>1, <1>4, DestroyedFacts
<1>6. /\ q' \in Seq(Items) /\ IsInjective(q') /\ ToSet(q') = ToSet(q) \ {work}
  BY <1>1, RemoveFacts DEF TypeOK, ListInv
<1>7. SemInv' /\ sem' \in Int
  <2>1. Posting' = Posting /\ PostingItems' = PostingItems
    BY <1>1, <1>4, <1>5 DEF Posting, PostingItems
  <2> QED BY <1>1, <1>3, <1>4, <2>1, SemDetached
<1>8. TypeOK'
  <2>1. sem' \in -1..(Cardinality(Publishers) + Cardinality(Items))
    BY <1>7, SemType
  <2> QED BY <1>1, <1>2, <1>5, <1>6, <2>1 DEF TypeOK, Stages
<1>9. LockInv'
  BY <1>1, LockStays
<1>10. ListInv'
  <2>1. ToSet(q) \cup ToSet(callbacks) \subseteq Items
    BY ListOf DEF TypeOK
  <2>2. \A i \in ToSet(q') : stage'[i] \in OnQueue
    BY <1>5, <1>6, <2>1 DEF ListInv
  <2>3. \A i \in ToSet(callbacks') : stage'[i] \in CalledBack
    BY <1>1, <1>4, <1>5, <2>1 DEF ListInv
  <2>4. \A i \in Items : i \in attached' <=> stage'[i] \in Attached
    BY <1>1, <1>5 DEF ListInv, Attached, OnQueue, CalledBack
  <2> QED BY <1>1, <1>6, <2>2, <2>3, <2>4 DEF ListInv, InRun
<1>11. DataInv'
  BY <1>1, DataStays
<1>12. SeenInv'
  <2>1. \A i \in Items : i # work => Pending(i)' = Pending(i)
    BY <1>1 DEF Pending
  <2> QED BY <1>1, <1>4, <2>1, SeenOfOthers
<1> QED BY <1>7, <1>8, <1>9, <1>10, <1>11, <1>12

(* What copy reads: the next message, or the oldest that is left when the  *)
(* reader has fallen behind, and the generation it takes over.             *)
LEMMA CopyReads ==
    ASSUME IInv, Copy
    PROVE  LET n == published - seen[work]
               m == IF n <= QueueSize THEN n ELSE QueueSize
           IN  /\ work \in Items /\ stage[work] \in Subscribed
               /\ n \in Nat /\ m \in 1..QueueSize /\ m <= n /\ n <= published
               /\ n + left <= MaxMore + 1
               /\ seen' = [seen EXCEPT ![work] = published - m + 1]
               /\ last' = [last EXCEPT ![work] = IF QueueSize = 1 THEN generation ELSE Back(m)]
<1> DEFINE n == published - seen[work]
           m == IF n <= QueueSize THEN n ELSE QueueSize
           g == IF QueueSize = 1 THEN generation ELSE ReadGeneration(work)
<1> USE DEF IInv
<1>1. /\ worker = "copy"
      /\ last' = [last EXCEPT ![work] = g]
      /\ seen' = [seen EXCEPT ![work] = data[g % QueueSize]]
  BY DEF Copy
<1>2. work \in Items /\ stage[work] \in Subscribed
  BY <1>1 DEF ListInv, InRun, Subscribed
<1>3. Pending(work) = 0
  BY <1>1 DEF Pending
<1>4. /\ published \in Nat /\ seen[work] \in Nat /\ seen[work] < published
      /\ generation \in 0..(Wrap - 1) /\ last[work] \in 0..(Wrap - 1)
      /\ left \in Nat /\ MaxMore \in Nat /\ MaxMore + 1 < Wrap /\ Wrap \in Nat
  BY <1>1, <1>2, DeliveryAssumption DEF TypeOK, SeenInv
<1>5. Behind(work) = n /\ n + left <= MaxMore + 1
  BY <1>2, <1>3, <1>4 DEF SeenInv
<1>6. n \in 1..(Wrap - 1) /\ n <= published /\ m \in 1..QueueSize /\ m <= n /\ n \in Nat
  BY <1>4, <1>5, QueueFacts
<1>7. last[work] = Back(n) /\ last[work] # generation
  BY <1>4, <1>5, <1>6 DEF Behind, Back
<1>8. data[Back(m) % QueueSize] = published - m + 1
  <2>1. m <= published /\ m \in 1..QueueSize
    BY <1>4, <1>6, QueueFacts
  <2> HIDE DEF m, n
  <2> QED BY <2>1 DEF DataInv
<1>9. CASE QueueSize = 1
  <2>1. Back(m) \in Int
    BY <1>4, <1>6, <1>9 DEF Back
  <2>2. g % QueueSize = 0 /\ Back(m) % QueueSize = 0
    BY <1>4, <1>9, <2>1
  <2>3. data[g % QueueSize] = published - m + 1
    BY <1>8, <2>2
  <2> QED BY <1>1, <1>2, <1>5, <1>6, <1>9, <2>3
<1>10. CASE QueueSize # 1
  <2>1. QueueSize \in 2..Wrap
    BY <1>10, QueueFacts
  <2>2. /\ Modulo(generation - QueueSize) = Back(QueueSize)
        /\ Modulo(generation - 1) = Back(1)
    <3>1. QueueSize \in 0..Wrap /\ 1 \in 0..Wrap
      BY <1>4, <2>1
    <3> QED BY <1>4, <3>1, Backward DEF Modulo, Back
  <2>3. IsInRange(Back(QueueSize), Back(n), Back(1)) <=> n <= QueueSize
    <3> HIDE DEF n
    <3>1. IsInRange(IF QueueSize <= generation THEN generation - QueueSize
                    ELSE generation - QueueSize + Wrap,
                    IF n <= generation THEN generation - n ELSE generation - n + Wrap,
                    IF 1 <= generation THEN generation - 1 ELSE generation - 1 + Wrap)
            <=> n <= QueueSize
      BY <1>4, <1>6, <2>1, InRange
    <3> QED BY Zenon, <3>1 DEF Back
  <2>4. g = IF IsInRange(Back(QueueSize), Back(n), Back(1)) THEN Back(n) ELSE Back(QueueSize)
    <3> HIDE DEF n
    <3> QED BY <1>7, <1>10, <2>2 DEF ReadGeneration
  <2>5. g = Back(m)
    BY <2>3, <2>4
  <2> HIDE DEF g, m, n
  <2>6. /\ last' = [last EXCEPT ![work] = Back(m)]
        /\ seen' = [seen EXCEPT ![work] = published - m + 1]
    BY <1>1, <1>8, <2>5
  <2> QED BY <1>2, <1>5, <1>6, <1>10, <2>6 DEF m, n
<1> QED BY <1>9, <1>10

LEMMA CopyKeeps == ASSUME IInv, Copy PROVE IInv'
<1> DEFINE n == published - seen[work]
           m == IF n <= QueueSize THEN n ELSE QueueSize
<1> USE DEF IInv
<1>1. /\ worker = "copy" /\ worker' = IF QueueSize = 1 THEN "updated" ELSE "bump"
      /\ UNCHANGED <<data, generation, valid, lock, callbacks, pub, calls, stage, stop, q, sem,
                     attached, exit, work, published, left>>
  BY DEF Copy, node, queue, count
<1>2. /\ work \in Items /\ stage[work] \in Subscribed
      /\ n \in Nat /\ m \in 1..QueueSize /\ m <= n /\ n <= published
      /\ n + left <= MaxMore + 1
      /\ seen' = [seen EXCEPT ![work] = published - m + 1]
      /\ last' = [last EXCEPT ![work] = IF QueueSize = 1 THEN generation ELSE Back(m)]
  BY CopyReads
<1> HIDE DEF n, m
<1>3. worker' \in {"updated", "bump"}
  BY <1>1
<1>4. /\ published \in Nat /\ generation \in 0..(Wrap - 1) /\ left \in Nat
      /\ MaxMore \in Nat /\ Wrap \in Nat /\ QueueSize \in Nat /\ QueueSize <= Wrap
      /\ MaxMore + 1 < Wrap
  BY DeliveryAssumption, QueueFacts DEF TypeOK
<1>5. m \in Nat /\ m >= 1 /\ m <= QueueSize /\ m < Wrap /\ m <= published
      /\ m + left <= MaxMore + 1
  BY <1>2, <1>4
<1>6. Back(m) \in 0..(Wrap - 1)
  BY <1>4, <1>5 DEF Back
<1>7. TypeOK'
  <2>1. last' \in [Items -> 0..(Wrap - 1)]
    BY <1>2, <1>4, <1>6 DEF TypeOK
  <2>2. published - m + 1 \in Nat
    BY <1>4, <1>5
  <2>3. seen' \in [Items -> Nat]
    BY <1>2, <2>2 DEF TypeOK
  <2> QED BY <1>1, <1>3, <2>1, <2>3 DEF TypeOK, InRun
<1>8. LockInv'
  BY <1>1, LockStays
<1>9. ListInv'
  BY <1>1, <1>3, ListStays DEF InRun
<1>10. SemInv'
  <2>1. Posting' = Posting /\ PostingItems' = PostingItems
    BY <1>1 DEF Posting, PostingItems
  <2> QED BY <1>1, <1>3, <2>1, SemStays
<1>11. DataInv'
  BY <1>1, DataStays
<1>12. SeenInv'
  <2>1. ASSUME NEW i \in Items, stage'[i] \in Subscribed
        PROVE  /\ seen'[i] <= published'
               /\ published' - seen'[i] + Pending(i)' + left' <= MaxMore + 1
               /\ Behind(i)' = published' - seen'[i] + Pending(i)'
    <3>1. CASE i # work
      <4>1. /\ seen'[i] = seen[i] /\ last'[i] = last[i] /\ stage[i] \in Subscribed
            /\ Pending(i)' = Pending(i)
        BY <1>1, <1>2, <2>1, <3>1 DEF TypeOK, Pending
      <4> QED BY <1>1, <4>1 DEF SeenInv, Behind
    <3>2. CASE i = work
      <4>1. /\ seen'[i] = published - m + 1
            /\ last'[i] = IF QueueSize = 1 THEN generation ELSE Back(m)
        BY <1>2, <3>2 DEF TypeOK
      <4>2. Pending(i)' = IF QueueSize = 1 THEN 0 ELSE 1
        BY <1>1, <3>2 DEF Pending
      <4>3. Behind(i)' = IF last'[i] <= generation THEN generation - last'[i]
                          ELSE generation - last'[i] + Wrap
        BY <1>1 DEF Behind
      <4>4. Behind(i)' = IF QueueSize = 1 THEN 0 ELSE m
        BY <1>4, <1>5, <4>1, <4>3 DEF Back
      <4> HIDE DEF Pending, Behind
      <4>5. published - seen'[i] = m - 1 /\ seen'[i] <= published
        BY <1>4, <1>5, <4>1
      <4>6. QueueSize = 1 => m = 1
        BY <1>5
      <4> QED BY <1>1, <1>4, <1>5, <4>2, <4>4, <4>5, <4>6
    <3> QED BY <3>1, <3>2
  <2>2. worker' # "copy"
    BY <1>3
  <2> HIDE DEF Pending, Behind
  <2> QED BY <2>1, <2>2 DEF SeenInv
<1> QED BY <1>7, <1>8, <1>9, <1>10, <1>11, <1>12

LEMMA BumpKeeps == ASSUME IInv, Bump PROVE IInv'
<1> USE DEF IInv
<1>1. /\ worker = "bump" /\ worker' = "updated"
      /\ last' = [last EXCEPT ![work] = Modulo(last[work] + 1)]
      /\ UNCHANGED <<data, generation, valid, lock, callbacks, pub, calls, stage, stop, q, sem,
                     attached, exit, work, published, left, seen>>
  BY DEF Bump, node, queue, count
<1>2. work \in Items /\ stage[work] \in Subscribed
  BY <1>1 DEF ListInv, InRun, Subscribed
<1>3. /\ published \in Nat /\ generation \in 0..(Wrap - 1) /\ Wrap \in Nat /\ left \in Nat
      /\ last[work] \in 0..(Wrap - 1) /\ seen[work] \in Nat /\ MaxMore \in Nat
  BY <1>2, DeliveryAssumption, QueueFacts DEF TypeOK
<1>4. Modulo(last[work] + 1) = IF last[work] + 1 = Wrap THEN 0 ELSE last[work] + 1
  BY <1>3, Forward DEF Modulo
<1>5. Modulo(last[work] + 1) \in 0..(Wrap - 1)
  BY <1>3, <1>4
<1>6. TypeOK'
  <2>1. last' \in [Items -> 0..(Wrap - 1)]
    BY <1>1, <1>5 DEF TypeOK
  <2> QED BY <1>1, <2>1 DEF TypeOK, InRun
<1>7. LockInv'
  BY <1>1, LockStays
<1>8. ListInv'
  BY <1>1, ListStays DEF InRun
<1>9. SemInv'
  <2>1. Posting' = Posting /\ PostingItems' = PostingItems
    BY <1>1 DEF Posting, PostingItems
  <2> QED BY <1>1, <2>1, SemStays
<1>10. DataInv'
  BY <1>1, DataStays
<1>11. SeenInv'
  <2>1. ASSUME NEW i \in Items, stage'[i] \in Subscribed
        PROVE  /\ seen'[i] <= published'
               /\ published' - seen'[i] + Pending(i)' + left' <= MaxMore + 1
               /\ Behind(i)' = published' - seen'[i] + Pending(i)'
    <3>1. CASE i # work
      <4>1. last'[i] = last[i] /\ stage[i] \in Subscribed /\ Pending(i)' = Pending(i)
        BY <1>1, <1>2, <2>1, <3>1 DEF TypeOK, Pending
      <4> QED BY <1>1, <4>1 DEF SeenInv, Behind
    <3>2. CASE i = work
      <4>1. last'[i] = IF last[i] + 1 = Wrap THEN 0 ELSE last[i] + 1
        BY <1>1, <1>4, <3>2 DEF TypeOK
      <4>2. Pending(i) = 1 /\ Pending(i)' = 0
        BY <1>1, <3>2 DEF Pending
      <4>3. Behind(i)' = IF last'[i] <= generation THEN generation - last'[i]
                          ELSE generation - last'[i] + Wrap
        BY <1>1 DEF Behind
      <4>4. /\ seen[i] <= published /\ published - seen[i] + 1 + left <= MaxMore + 1
            /\ Behind(i) = published - seen[i] + 1
        BY <1>2, <3>2, <4>2 DEF SeenInv
      <4>5. Behind(i) >= 1
        <5> HIDE DEF Behind
        <5> QED BY <1>3, <3>2, <4>4
      <4>6. Behind(i)' = Behind(i) - 1
        BY <1>3, <3>2, <4>1, <4>3, <4>5 DEF Behind
      <4> HIDE DEF Pending, Behind
      <4> QED BY <1>1, <1>3, <3>2, <4>2, <4>4, <4>6
    <3> QED BY <3>1, <3>2
  <2>2. worker' # "copy"
    BY <1>1
  <2> HIDE DEF Pending, Behind
  <2> QED BY <2>1, <2>2 DEF SeenInv
<1> QED BY <1>6, <1>7, <1>8, <1>9, <1>10, <1>11
-----------------------------------------------------------------------------
(* Steps that change nothing.                                              *)
LEMMA StutterKeeps == ASSUME IInv, UNCHANGED vars PROVE IInv'
<1> USE DEF IInv
<1>1. UNCHANGED <<data, generation, valid, lock, callbacks, pub, calls, last, stage, stop, q,
                  sem, attached, exit, worker, work, published, left, seen>>
  BY DEF vars, node, queue, run, count
<1>2. TypeOK'
  BY <1>1 DEF TypeOK
<1>3. LockInv'
  BY <1>1, LockStays
<1>4. ListInv'
  BY <1>1, ListStays
<1>5. SemInv'
  <2>1. Posting' = Posting /\ PostingItems' = PostingItems
    BY <1>1 DEF Posting, PostingItems
  <2> QED BY <1>1, <2>1, SemStays
<1>6. DataInv'
  BY <1>1, DataStays
<1>7. SeenInv'
  <2>1. \A i \in Items : Pending(i)' = Pending(i)
    BY <1>1 DEF Pending
  <2> QED BY <1>1, <2>1, SeenStays
<1> QED BY <1>2, <1>3, <1>4, <1>5, <1>6, <1>7

(* Every step keeps the invariant.                                         *)
LEMMA NextKeeps == IInv /\ [Next]_vars => IInv'
<1> SUFFICES ASSUME IInv, [Next]_vars PROVE IInv'
  OBVIOUS
<1>1. ASSUME NEW p \in Publishers, Publisher(p) PROVE IInv'
  BY <1>1, WriteKeeps, CallKeeps, SignalKeeps, PostWorkKeeps, EndWriteKeeps DEF Publisher
<1>2. ASSUME NEW it \in Items, Starting(it) PROVE IInv'
  BY <1>2, AttachKeeps, SubscribeKeeps, RegisterKeeps, ScheduleNowKeeps, SignalStartKeeps,
     PostStartKeeps DEF Starting
<1>3. ASSUME NEW it \in Items, Stopping(it) PROVE IInv'
  BY <1>3, RequestStopKeeps, StopUnregisterKeeps, StopDeinitKeeps, DeleteKeeps DEF Stopping
<1>4. CASE Worker
  BY <1>4, LoopKeeps, DrainKeeps, CheckExitKeeps, UpdatedKeeps, CopyKeeps, BumpKeeps,
     UnregisterKeeps, CleanupKeeps DEF Worker
<1>5. CASE Quiet
  BY <1>5, StutterKeeps DEF Quiet
<1>6. CASE UNCHANGED vars
  BY <1>6, StutterKeeps
<1> QED BY <1>1, <1>2, <1>3, <1>4, <1>5, <1>6 DEF Next

(* The invariant holds always.                                             *)
LEMMA Invariance == Spec => []IInv
BY InitHolds, NextKeeps, PTL DEF Spec

(* Whatever the threads do, the variables keep their types, and the        *)
(* semaphore is never counted above the number of threads, so that         *)
(* SignalWorkerThread's unlocked test of it does no harm.                  *)
THEOREM TypeCorrect == Spec => []TypeOK
<1>1. IInv => TypeOK
  BY DEF IInv
<1> QED BY <1>1, Invariance, PTL

(* An item that ScheduledWorkItem's destructor has destroyed is not in the *)
(* node's callbacks, in a publisher's pass over them, in the run queue or  *)
(* among the attached items, and the worker does not run it.               *)
THEOREM DeletedForgotten == Spec => []DeletedItemIsForgotten
<1>1. IInv => DeletedItemIsForgotten
  <2> SUFFICES ASSUME IInv, NEW it \in Items, stage[it] = "deleted"
               PROVE  it \notin ToSet(q) \cup ToSet(callbacks) \cup ToSet(calls) \cup attached
                        /\ ~Running(it)
    BY DEF DeletedItemIsForgotten
  <2>1. it \notin ToSet(q) /\ it \notin ToSet(callbacks) /\ it \notin attached
    BY DEF IInv, ListInv, Attached, OnQueue, CalledBack
  <2>2. it \notin ToSet(calls)
    BY <2>1 DEF IInv, LockInv
  <2>3. ~Running(it)
    BY DEF IInv, ListInv, Running, Runnable, OnQueue, CalledBack
  <2> QED BY <2>1, <2>2, <2>3
<1> QED BY <1>1, Invariance, PTL

(* Only copy goes from the test of the generation to what follows it.      *)
LEMMA OnlyCopyReads ==
    ASSUME Next, worker = "copy", worker' \in {"bump", "updated"}
    PROVE  Copy
<1>1. worker' # worker
  OBVIOUS
<1>2. ASSUME NEW p \in Publishers, Publisher(p) PROVE FALSE
  <2>1. ASSUME PostWork(p) PROVE FALSE
    BY <1>1, <2>1, PostWakes DEF PostWork, Post
  <2> QED BY <1>1, <1>2, <2>1 DEF Publisher, Write, Call, Signal, EndWrite, run
<1>3. ASSUME NEW it \in Items, Starting(it) PROVE FALSE
  <2>1. ASSUME PostStart(it) PROVE FALSE
    BY <1>1, <2>1, PostWakes DEF PostStart, Post
  <2> QED BY <1>1, <1>3, <2>1 DEF Starting, Attach, Subscribe, Register, ScheduleNow,
                                  SignalStart, run
<1>4. ASSUME NEW it \in Items, Stopping(it) PROVE FALSE
  <2>1. ASSUME StopDeinit(it) PROVE FALSE
    BY <1>1, <2>1, PostWakes DEF StopDeinit
  <2> QED BY <1>1, <1>4, <2>1 DEF Stopping, RequestStop, StopUnregister, Delete, run
<1>5. ASSUME Worker PROVE Copy
  BY <1>5 DEF Worker, Loop, Drain, CheckExit, Updated, Bump, Unregister, Cleanup
<1>6. ~Quiet
  BY DEF Quiet
<1> QED BY <1>2, <1>3, <1>4, <1>5, <1>6 DEF Next

(* An item reads the messages one after another, or the oldest that is     *)
(* left when more than the queue's size are new, for every size that       *)
(* round_pow_of_two_8 gives and wherever the generations wrap: is_in_range *)
(* tells the generations in the queue from those before it.                *)
THEOREM MessagesOrdered == Spec => MessagesInOrder
<1> DEFINE Order == worker = "copy" /\ worker' \in {"bump", "updated"} =>
                        seen'[work] = IF seen[work] + QueueSize < published
                                      THEN published - QueueSize + 1 ELSE seen[work] + 1
<1>1. IInv /\ [Next]_vars => [Order]_vars
  <2> SUFFICES ASSUME IInv, Next, worker = "copy", worker' \in {"bump", "updated"}
               PROVE  seen'[work] = IF seen[work] + QueueSize < published
                                    THEN published - QueueSize + 1 ELSE seen[work] + 1
    OBVIOUS
  <2> DEFINE n == published - seen[work]
             m == IF n <= QueueSize THEN n ELSE QueueSize
  <2>1. Copy
    BY OnlyCopyReads
  <2>2. work \in Items /\ seen' = [seen EXCEPT ![work] = published - m + 1]
    BY <2>1, CopyReads
  <2>3. seen'[work] = published - m + 1
    BY <2>2 DEF IInv, TypeOK
  <2>4. published \in Nat /\ seen[work] \in Nat /\ QueueSize \in Nat
    BY <2>2, QueueFacts DEF IInv, TypeOK
  <2> QED BY <2>3, <2>4
<1> QED BY <1>1, Invariance, PTL DEF Spec, MessagesInOrder
-----------------------------------------------------------------------------
(* Somebody has put an item into the queue and is about to see to it that  *)
(* the worker takes it out.                                                *)
AboutToSignal == {"signal", "post"}
Signalling ==
    \/ \E p \in Publishers : pub[p] \in AboutToSignal
    \/ \E it \in Items : stage[it] \in AboutToSignal

(* The worker goes to sleep only where somebody will wake it: it looks at  *)
(* the semaphore after it has found the queue empty, SignalWorkerThread    *)
(* after it has put the item in.                                           *)
WakeInv ==
    /\ worker \in {"loop", "blocked"} /\ sem <= 0 /\ q # << >> => Signalling
    /\ worker = "blocked" => ~exit

(* The worker sleeps only while its queue is empty or somebody is about to *)
(* post, and never when the queue is to end.                               *)
SleepsOnlyIdle ==
    worker = "blocked" => ~exit /\ (q = << >> \/ Signalling)

(* A step that takes nobody's signal back.                                 *)
LEMMA WakeStays ==
    ASSUME WakeInv, UNCHANGED <<q, sem, exit>>,
           worker' = worker \/ worker' \notin {"loop", "blocked"},
           \A p \in Publishers : pub[p] \in AboutToSignal => pub'[p] \in AboutToSignal,
           \A it \in Items : stage[it] \in AboutToSignal => stage'[it] \in AboutToSignal
    PROVE  WakeInv'
<1>1. Signalling => Signalling'
  BY DEF Signalling
<1> QED BY <1>1 DEF WakeInv

(* A post ends the sleep, or is there for the next wait.                   *)
LEMMA WakeByPost ==
    ASSUME TypeOK, SemInv, WakeInv, Post, UNCHANGED <<q, exit>>
    PROVE  WakeInv'
<1>1. sem \in Int /\ (worker = "blocked" => sem = -1) /\ (worker # "blocked" => sem >= 0)
  BY DEF TypeOK, SemInv
<1>2. /\ sem' = sem + 1
      /\ worker' = IF worker = "blocked" /\ sem + 1 <= 0 THEN "drain" ELSE worker
  BY DEF Post, Posted
<1> QED BY <1>1, <1>2 DEF WakeInv

(* Nothing comes into a queue by taking something out.                     *)
LEMMA EmptyRemove ==
    ASSUME TypeOK, ListInv, NEW it, q' = RemoveFirst(q, it), q' # << >>
    PROVE  q # << >>
<1>1. q' \in Seq(Items) /\ ToSet(q') = ToSet(q) \ {it}
  BY RemoveFacts DEF TypeOK, ListInv
<1>2. Head(q') \in ToSet(q)
  BY <1>1, TailFacts
<1>3. ToSet(<< >>) = {}
  BY DEF ToSet
<1> QED BY <1>2, <1>3

LEMMA WakeOfPublisher ==
    ASSUME IInv, WakeInv, NEW p \in Publishers, Publisher(p)
    PROVE  WakeInv'
<1>0. TypeOK /\ SemInv
  BY DEF IInv
<1>1. CASE Write(p)
  <2>1. /\ pub[p] = "out" /\ pub' = [pub EXCEPT ![p] = "call"]
        /\ UNCHANGED <<q, sem, exit, worker, stage>>
    BY <1>1 DEF Write, queue, run
  <2>2. \A r \in Publishers : pub[r] \in AboutToSignal => pub'[r] \in AboutToSignal
    BY <1>0, <2>1, PlaceOf DEF AboutToSignal
  <2> QED BY <2>1, <2>2, WakeStays
<1>2. CASE Call(p)
  <2>1. /\ pub' = [pub EXCEPT ![p] = "signal"] \/ UNCHANGED <<q, pub>>
        /\ UNCHANGED <<sem, exit, worker, stage>>
    BY <1>2 DEF Call, run
  <2>2. CASE pub' = [pub EXCEPT ![p] = "signal"]
    <3>1. pub'[p] \in AboutToSignal
      BY <1>0, <2>2, PlaceOf DEF AboutToSignal
    <3> QED BY <2>1, <3>1 DEF WakeInv, Signalling
  <2>3. CASE UNCHANGED <<q, pub>>
    BY <2>1, <2>3, WakeStays
  <2> QED BY <2>1, <2>2, <2>3
<1>3. CASE Signal(p)
  <2>1. /\ pub' = [pub EXCEPT ![p] = IF sem <= 0 THEN "post" ELSE "call"]
        /\ UNCHANGED <<q, sem, exit, worker, stage>>
    BY <1>3 DEF Signal, NeedsPost, queue, run
  <2>2. sem <= 0 => pub'[p] \in AboutToSignal
    BY <1>0, <2>1, PlaceOf DEF AboutToSignal
  <2> QED BY <2>1, <2>2 DEF WakeInv, Signalling
<1>4. CASE PostWork(p)
  BY <1>0, <1>4, WakeByPost DEF PostWork
<1>5. CASE EndWrite(p)
  <2>1. /\ pub[p] = "call" /\ pub' = [pub EXCEPT ![p] = "out"]
        /\ UNCHANGED <<q, sem, exit, worker, stage>>
    BY <1>5 DEF EndWrite, queue, run
  <2>2. \A r \in Publishers : pub[r] \in AboutToSignal => pub'[r] \in AboutToSignal
    BY <1>0, <2>1, PlaceOf DEF AboutToSignal
  <2> QED BY <2>1, <2>2, WakeStays
<1> QED BY <1>1, <1>2, <1>3, <1>4, <1>5 DEF Publisher

LEMMA WakeOfOwner ==
    ASSUME IInv, WakeInv, NEW it \in Items, Starting(it) \/ Stopping(it)
    PROVE  WakeInv'
<1>0. TypeOK /\ ListInv /\ SemInv
  BY DEF IInv
<1>1. CASE Attach(it) \/ Subscribe(it) \/ Register(it) \/ StopUnregister(it) \/ Delete(it)
  <2>1. PICK v \in Stages :
          /\ stage[it] \notin AboutToSignal /\ stage' = [stage EXCEPT ![it] = v]
          /\ UNCHANGED <<q, sem, exit, pub>>
          /\ worker' = worker \/ worker' = "undefined"
    BY <1>1 DEF Attach, Subscribe, Register, StopUnregister, Delete, Destroyed, queue, run,
                AboutToSignal, Stages
  <2>2. \A i \in Items : stage[i] \in AboutToSignal => stage'[i] \in AboutToSignal
    BY <1>0, <2>1, StageOf
  <2> QED BY <2>1, <2>2, WakeStays
<1>2. CASE ScheduleNow(it)
  <2>1. stage' = [stage EXCEPT ![it] = "signal"] /\ UNCHANGED <<sem, exit, worker>>
    BY <1>2 DEF ScheduleNow, run
  <2>2. stage'[it] \in AboutToSignal
    BY <1>0, <2>1, StageOf DEF AboutToSignal, Stages
  <2> QED BY <2>1, <2>2 DEF WakeInv, Signalling
<1>3. CASE SignalStart(it)
  <2>1. /\ stage' = [stage EXCEPT ![it] = IF sem <= 0 THEN "post" ELSE "on"]
        /\ UNCHANGED <<q, sem, exit, worker, pub>>
    BY <1>3 DEF SignalStart, NeedsPost, queue, run
  <2>2. sem <= 0 => stage'[it] \in AboutToSignal
    BY <1>0, <2>1, StageOf DEF AboutToSignal, Stages
  <2> QED BY <2>1, <2>2 DEF WakeInv, Signalling
<1>4. CASE PostStart(it)
  BY <1>0, <1>4, WakeByPost DEF PostStart
<1>5. CASE RequestStop(it)
  <2>1. UNCHANGED <<q, sem, exit, worker, pub, stage>>
    BY <1>5 DEF RequestStop, queue, run
  <2> QED BY <2>1, WakeStays
<1>6. CASE StopDeinit(it)
  <2>1. /\ stage[it] = "unregistered" /\ stage' = [stage EXCEPT ![it] = "deinit"]
        /\ pub' = pub /\ q' = RemoveFirst(q, it)
        /\ sem' = IF exit' /\ sem <= 0 THEN sem + 1 ELSE sem
        /\ IF sem' # sem THEN Posted ELSE worker' = worker
    BY <1>6 DEF StopDeinit, Dequeue, Detach, NeedsPost
  <2>2. Signalling => Signalling'
    BY <1>0, <2>1, StageOf DEF Signalling, AboutToSignal, Stages
  <2>3. q' # << >> => q # << >>
    BY <1>0, <2>1, EmptyRemove
  <2>4. sem \in Int /\ (worker = "blocked" => sem = -1) /\ (worker # "blocked" => sem >= 0)
    BY <1>0 DEF TypeOK, SemInv
  <2>5. CASE exit' /\ sem <= 0
    <3>1. sem' = sem + 1
      BY <2>1, <2>5
    <3>2. worker' = IF worker = "blocked" /\ sem + 1 <= 0 THEN "drain" ELSE worker
      BY <2>1, <2>4, <3>1 DEF Posted
    <3> QED BY <2>4, <3>1, <3>2 DEF WakeInv
  <2>6. CASE ~(exit' /\ sem <= 0)
    <3>1. sem' = sem /\ worker' = worker
      BY <2>1, <2>6
    <3> QED BY <2>2, <2>3, <2>4, <2>6, <3>1 DEF WakeInv
  <2> QED BY <2>5, <2>6
<1> QED BY <1>1, <1>2, <1>3, <1>4, <1>5, <1>6 DEF Starting, Stopping

LEMMA WakeOfWorker == ASSUME IInv, WakeInv, Worker PROVE WakeInv'
<1>1. CASE Loop
  <2>1. /\ worker = "loop" /\ UNCHANGED <<q, exit, pub, stage>>
        /\ worker' = "blocked" => ~exit /\ sem - 1 < 0 /\ sem' = sem - 1
        /\ worker' # "loop"
    BY <1>1 DEF Loop
  <2>2. sem \in Int
    BY DEF IInv, TypeOK
  <2>3. Signalling' = Signalling
    BY <2>1 DEF Signalling
  <2> QED BY <2>1, <2>2, <2>3 DEF WakeInv
<1>2. CASE Drain
  BY <1>2 DEF Drain, WakeInv
<1>3. CASE CheckExit \/ Updated \/ Copy \/ Bump \/ Unregister \/ Cleanup
  <2>1. worker' \notin {"loop", "blocked"}
    BY <1>3 DEF CheckExit, Updated, Copy, Bump, Unregister, Cleanup
  <2> QED BY <2>1 DEF WakeInv
<1> QED BY <1>1, <1>2, <1>3 DEF Worker

(* No wake-up is lost: SignalWorkerThread reads the semaphore without a    *)
(* lock and leaves out the post when it is positive, and still the worker  *)
(* does not sleep over an item in its queue, or over the end of the queue, *)
(* unless somebody is about to post.                                       *)
THEOREM NoLostWakeup == Spec => []SleepsOnlyIdle
<1>1. Init => WakeInv
  BY DEF Init, WakeInv
<1>2. IInv /\ WakeInv /\ [Next]_vars => WakeInv'
  <2> SUFFICES ASSUME IInv, WakeInv, [Next]_vars PROVE WakeInv'
    OBVIOUS
  <2>1. CASE Quiet \/ UNCHANGED vars
    <3>1. UNCHANGED <<q, sem, exit, worker, pub, stage>>
      BY <2>1 DEF Quiet, vars, queue, run
    <3> QED BY <3>1, WakeStays
  <2> QED BY <2>1, WakeOfPublisher, WakeOfOwner, WakeOfWorker DEF Next
<1>3. IInv /\ WakeInv => SleepsOnlyIdle
  BY DEF IInv, TypeOK, SemInv, WakeInv, SleepsOnlyIdle
<1> QED BY <1>1, <1>2, <1>3, Invariance, PTL DEF Spec
-----------------------------------------------------------------------------
(***************************************************************************)
(* FaultInjection.  Both properties say where a command has its effect     *)
(* once it has arrived.  LinkInv follows the last command over the link to *)
(* its topic, FreshInv from the topic to what the consumers publish;       *)
(* LastInv says which message a default clear of the DT is.                *)
(***************************************************************************)

(* What handle_message publishes for the last command.                     *)
Routed == IF cmd.mode = 255 THEN [mode |-> 1, flag |-> 0]
          ELSE [mode |-> cmd.mode, flag |-> cmd.flag]

LastInv ==
    /\ cmd \in [op : {"none", "inject", "clear"}, mode : Byte, flag : Nat, default : BOOLEAN]
    /\ cmd.op = "none" => net = << >>
    /\ cmd.op = "clear" => cmd.flag = 0
    /\ cmd.op = "clear" /\ cmd.default /\ backend = "dt" => cmd.mode = 0

(* Unless the link dropped a message, the last command is the last message *)
(* under way, or the last one published on its topic.                      *)
LinkInv ==
    ~lost /\ cmd.op # "none" =>
        IF net = << >> THEN topic[Route(cmd.mode)] = Routed
        ELSE net[Len(net)] = [mode |-> cmd.mode, flag |-> cmd.flag]

(* What a consumer has published since the last delivery follows from what *)
(* is on the topic.                                                        *)
FreshInv == \A c \in fresh : output[c] \in Reads(c)

FaultInv == FaultTypeOK /\ LastInv /\ LinkInv /\ FreshInv
-----------------------------------------------------------------------------
LEMMA RouteType == \A m \in Byte : Route(m) \in Topics
BY DEF Route, Topics, Byte

LEMMA ReadsType ==
    ASSUME FaultTypeOK, NEW c \in Consumers
    PROVE  Reads(c) \subseteq Readings
<1>1. \A k \in 1..4 : Kinds[k] \in Readings
  BY DEF Readings
<1>2. Undefined \subseteq Readings /\ {"true", "other"} \subseteq Readings
  BY DEF Readings, Undefined
<1>3. "replaced" \in Readings
  <2>1. Kinds[1] = "replaced"
    BY DEF Kinds
  <2> QED BY <1>1, <2>1
<1>4. output["motors"] \in Readings
  BY DEF FaultTypeOK, Consumers
<1> QED BY <1>1, <1>2, <1>3, <1>4 DEF Reads, ImuDriverReads, MotorsDriven, ImuPolled

LEMMA FaultInitHolds == FaultInit => FaultInv
<1> SUFFICES ASSUME FaultInit PROVE FaultInv
  OBVIOUS
<1> USE FaultAssumption DEF FaultInit
<1>1. FaultTypeOK
  <2>1. "true" \in Readings
    BY DEF Readings, Undefined
  <2>2. topic \in [Topics -> Message \cup {Unpublished}] /\ output \in [Consumers -> Readings]
    BY <2>1
  <2>3. lost \in BOOLEAN
    OBVIOUS
  <2>4. cmd.op = "none" /\ cmd.mode = 0 /\ 0 \in Byte /\ last_fault_mode \in Byte
    BY DEF Byte
  <2>5. net \in Seq(Message)
    OBVIOUS
  <2> QED BY <2>2, <2>3, <2>4, <2>5 DEF FaultTypeOK
<1>2. LastInv
  BY DEF LastInv, Byte
<1>3. LinkInv /\ FreshInv
  BY DEF LinkInv, FreshInv
<1> QED BY <1>1, <1>2, <1>3 DEF FaultInv

(* A command that sends a message, whoever sent it.                        *)
LEMMA SendKeeps ==
    ASSUME FaultInv, NEW m \in Byte, NEW f \in Nat, NEW op \in {"inject", "clear"},
           NEW default \in BOOLEAN,
           op = "clear" => f = 0,
           op = "clear" /\ default /\ backend = "dt" => m = 0,
           Send(m, f), cmd' = [op |-> op, mode |-> m, flag |-> f, default |-> default],
           last_fault_mode' \in Byte, commands' \in 0..MaxCommands,
           UNCHANGED <<backend, lost, topic, output, fresh>>
    PROVE  FaultInv'
<1> USE DEF FaultInv
<1> DEFINE msg == [mode |-> m, flag |-> f]
<1>1. msg \in Message /\ net \in Seq(Message) /\ net' = Append(net, msg)
  BY DEF Message, FaultTypeOK, Send
<1> HIDE DEF msg
<1>2. /\ net' \in Seq(Message) /\ net' # << >>
      /\ Len(net') = Len(net) + 1 /\ net'[Len(net')] = msg
  BY <1>1, AppendProperties
<1>3. /\ cmd' \in [op : {"none", "inject", "clear"}, mode : Byte, flag : Nat, default : BOOLEAN]
      /\ cmd'.op = op /\ cmd'.mode = m /\ cmd'.flag = f /\ cmd'.default = default
  OBVIOUS
<1>4. FaultTypeOK'
  BY <1>2, <1>3 DEF FaultTypeOK
<1>5. LastInv'
  BY <1>3 DEF LastInv
<1>6. LinkInv'
  BY <1>2, <1>3 DEF LinkInv, msg
<1>7. FreshInv'
  BY DEF FreshInv, Reads, ImuDriverReads, MotorsDriven, ImuPolled, Ctrl
<1> QED BY <1>4, <1>5, <1>6, <1>7

LEMMA InjectFaultKeeps ==
    ASSUME FaultInv, NEW m \in Modes, NEW f \in Flags, InjectFault(m, f)
    PROVE  FaultInv'
<1>1. m \in Byte /\ f \in Nat
  BY FaultAssumption
<1>2. last_fault_mode' \in Byte /\ commands' \in 0..MaxCommands
  BY <1>1, FaultAssumption DEF InjectFault, FaultInv, FaultTypeOK
<1> QED BY <1>1, <1>2, SendKeeps DEF InjectFault

LEMMA ClearFaultKeeps ==
    ASSUME FaultInv, NEW m \in Byte, NEW default \in BOOLEAN,
           default /\ backend = "dt" => m = 0, ClearFault(m, default)
    PROVE  FaultInv'
<1>1. last_fault_mode' \in Byte /\ commands' \in 0..MaxCommands
  BY FaultAssumption DEF ClearFault, FaultInv, FaultTypeOK
<1> QED BY <1>1, SendKeeps DEF ClearFault

LEMMA InjectFaultRaisesKeeps ==
    ASSUME FaultInv, NEW m \in Modes, InjectFaultRaises(m)
    PROVE  FaultInv'
<1> USE FaultAssumption DEF FaultInv, InjectFaultRaises
<1>1. FaultTypeOK' /\ LastInv' /\ LinkInv'
  BY DEF FaultTypeOK, LastInv, LinkInv, Routed
<1>2. FreshInv'
  BY DEF FreshInv, Reads, ImuDriverReads, MotorsDriven, ImuPolled, Ctrl
<1> QED BY <1>1, <1>2

(* What taking the first message off the link leaves there.                *)
LEMMA LinkTail ==
    ASSUME FaultTypeOK, net # << >>, net' = Tail(net)
    PROVE  /\ Head(net) \in Message /\ net' \in Seq(Message)
           /\ IF net' = << >> THEN Head(net) = net[Len(net)]
              ELSE net'[Len(net')] = net[Len(net)]
<1>1. /\ net \in Seq(Message) /\ Len(net) \in Nat \ {0} /\ Head(net) = net[1]
      /\ Head(net) \in Message /\ net' \in Seq(Message) /\ Len(net') = Len(net) - 1
      /\ \A i \in 1..Len(net') : net'[i] = net[i + 1]
  BY HeadTailProperties, EmptySeq, LenProperties DEF FaultTypeOK
<1>2. CASE net' = << >>
  <2>1. Len(net) = 1
    <3>1. Len(net') = 0
      BY <1>2, EmptySeq
    <3> QED BY <1>1, <3>1
  <2> QED BY <1>1, <1>2, <2>1
<1>3. CASE net' # << >>
  <2>1. Len(net') \in Nat \ {0}
    BY <1>1, <1>3, EmptySeq
  <2> QED BY <1>1, <1>3, <2>1
<1> QED BY <1>2, <1>3

LEMMA DeliverKeeps == FaultInv /\ Deliver => FaultInv'
<1> SUFFICES ASSUME FaultInv, Deliver PROVE FaultInv'
  OBVIOUS
<1> USE DEF FaultInv
<1> DEFINE msg == Head(net)
           sent == IF msg.mode = 255 THEN [mode |-> 1, flag |-> 0]
                  ELSE [mode |-> msg.mode, flag |-> msg.flag]
<1>1. /\ net # << >> /\ net' = Tail(net) /\ fresh' = {}
      /\ topic' = [topic EXCEPT ![Route(msg.mode)] = sent]
      /\ UNCHANGED <<backend, last_fault_mode, lost, output, cmd, commands>>
  BY DEF Deliver
<1>2. /\ msg \in Message /\ net' \in Seq(Message)
      /\ IF net' = << >> THEN msg = net[Len(net)] ELSE net'[Len(net')] = net[Len(net)]
  BY <1>1, LinkTail
<1>3. msg.mode \in Byte /\ sent \in Message /\ Route(msg.mode) \in Topics
  <2>1. msg.mode \in Byte /\ msg.flag \in Nat
    BY <1>2 DEF Message
  <2> QED BY <2>1, RouteType DEF Message, Byte
<1> HIDE DEF msg
<1>4. FaultTypeOK'
  BY <1>1, <1>2, <1>3 DEF FaultTypeOK
<1>5. LastInv'
  BY <1>1 DEF LastInv
<1>6. LinkInv'
  <2> SUFFICES ASSUME ~lost, cmd.op # "none"
               PROVE  IF net' = << >> THEN topic'[Route(cmd.mode)] = Routed
                      ELSE net'[Len(net')] = [mode |-> cmd.mode, flag |-> cmd.flag]
    BY <1>1 DEF LinkInv, Routed
  <2>1. net[Len(net)] = [mode |-> cmd.mode, flag |-> cmd.flag]
    BY <1>1 DEF LinkInv
  <2>2. CASE net' = << >>
    <3>1. msg.mode = cmd.mode /\ msg.flag = cmd.flag
      BY <1>2, <2>1, <2>2
    <3>2. topic'[Route(msg.mode)] = sent
      BY <1>1, <1>3 DEF FaultTypeOK
    <3> QED BY <2>2, <3>1, <3>2 DEF Routed
  <2> QED BY <1>2, <2>1, <2>2
<1>7. FreshInv'
  BY <1>1 DEF FreshInv
<1> QED BY <1>4, <1>5, <1>6, <1>7

LEMMA LoseKeeps == FaultInv /\ Lose => FaultInv'
<1> SUFFICES ASSUME FaultInv, Lose PROVE FaultInv'
  OBVIOUS
<1> USE DEF FaultInv, Lose
<1>1. net' \in Seq(Message)
  BY LinkTail
<1>2. FaultTypeOK' /\ LinkInv'
  BY <1>1 DEF FaultTypeOK, LinkInv
<1>3. LastInv'
  BY DEF LastInv
<1>4. FreshInv'
  BY DEF FreshInv, Reads, ImuDriverReads, MotorsDriven, ImuPolled, Ctrl
<1> QED BY <1>2, <1>3, <1>4

LEMMA PublishKeeps ==
    ASSUME FaultInv, NEW c \in Consumers, Publish(c)
    PROVE  FaultInv'
<1> USE DEF FaultInv
<1>1. PICK r \in Reads(c) : output' = [output EXCEPT ![c] = r]
  BY DEF Publish
<1>2. r \in Readings
  BY ReadsType
<1>3. FaultTypeOK' /\ LastInv' /\ LinkInv'
  BY <1>1, <1>2 DEF Publish, FaultTypeOK, LastInv, LinkInv, Routed
<1>4. FreshInv'
  <2>1. output'[c] = r /\ \A d \in Consumers \ {c} : output'[d] = output[d]
    BY <1>1 DEF FaultTypeOK
  <2>2. topic' = topic /\ backend' = backend
    BY DEF Publish
  <2>3. \A d \in Consumers \ {c} : Reads(d)' = Reads(d)
    BY <2>1, <2>2 DEF Reads, ImuDriverReads, MotorsDriven, ImuPolled, Ctrl, Consumers
  <2>4. r \in Reads(c)'
    BY <2>1, <2>2 DEF Reads, ImuDriverReads, MotorsDriven, ImuPolled, Ctrl
  <2> QED BY <2>1, <2>3, <2>4 DEF FreshInv, Publish, FaultTypeOK
<1> QED BY <1>3, <1>4

LEMMA FaultNextKeeps == FaultInv /\ [FaultNext]_faultVars => FaultInv'
<1> SUFFICES ASSUME FaultInv, [FaultNext]_faultVars PROVE FaultInv'
  OBVIOUS
<1>1. CASE UNCHANGED faultVars
  BY <1>1 DEF faultVars, FaultInv, FaultTypeOK, LastInv, LinkInv, Routed, FreshInv, Reads,
              ImuDriverReads, MotorsDriven, ImuPolled, Ctrl
<1>2. CASE \/ \E m \in Modes, f \in Flags : InjectFault(m, f)
           \/ \E m \in Modes : InjectFaultRaises(m)
  BY <1>2, InjectFaultKeeps, InjectFaultRaisesKeeps
<1>3. CASE ClearFault(ClearMode, TRUE)
  <2>1. ClearMode \in Byte /\ (backend = "dt" => ClearMode = 0)
    BY DEF FaultInv, FaultTypeOK, ClearMode, Byte
  <2> QED BY <1>3, <2>1, ClearFaultKeeps
<1>4. CASE \E m \in Modes : ClearFault(m, FALSE)
  BY <1>4, ClearFaultKeeps, FaultAssumption
<1>5. CASE Deliver \/ Lose
  BY <1>5, DeliverKeeps, LoseKeeps
<1>6. CASE \E c \in Consumers : Publish(c)
  BY <1>6, PublishKeeps
<1> QED BY <1>1, <1>2, <1>3, <1>4, <1>5, <1>6 DEF FaultNext

(* Whatever is injected, cleared, lost and published, the commands under   *)
(* way and the readings follow from the last command: FaultInv is invariant.   *)
LEMMA FaultInvariance == FaultSpec => []FaultInv
BY FaultInitHolds, FaultNextKeeps, PTL DEF FaultSpec
-----------------------------------------------------------------------------
(* Every variable keeps its type; no message on the link or on a topic has *)
(* a mode that does not fit into the byte of HIL_ACTUATOR_CONTROLS.        *)
THEOREM FaultTypeCorrect == FaultSpec => []FaultTypeOK
<1>1. FaultInv => FaultTypeOK
  BY DEF FaultInv
<1> QED BY <1>1, FaultInvariance, PTL

(* The DT's clear_fault sends mode 0, which no consumer takes for its own: *)
(* once it has arrived every consumer that has published since publishes   *)
(* true values, whatever modes and flags were injected before.             *)
THEOREM DTClears == FaultSpec => []DTClearRestores
<1>1. FaultInv => DTClearRestores
  <2> SUFFICES ASSUME FaultInv, backend = "dt", Arrived, cmd.op = "clear", cmd.default,
                      NEW c \in fresh
               PROVE  output[c] = "true"
    BY DEF DTClearRestores, Faulty
  <2>1. cmd.mode = 0 /\ cmd.flag = 0
    BY DEF FaultInv, LastInv
  <2>2. topic["rfly_ctrl"] = [mode |-> 0, flag |-> 0]
    BY <2>1 DEF FaultInv, LinkInv, Arrived, Routed, Route
  <2>3. Ctrl # Unpublished /\ Ctrl.mode = 0
    BY <2>2 DEF Ctrl, Unpublished
  <2>4. Reads(c) = {"true"}
    BY <2>3 DEF Reads, ImuDriverReads, MotorsDriven, ImuPolled
  <2> QED BY <2>4 DEF FaultInv, FreshInv
<1> QED BY <1>1, FaultInvariance, PTL

(* A fault of a known kind injected into the accelerometer, the gyroscope  *)
(* or the motors is what the addressed driver publishes once the message   *)
(* has arrived, whatever was injected or cleared before.                   *)
THEOREM InjectionTakesEffect == FaultSpec => []InjectionShows
<1>1. FaultInv => InjectionShows
  <2> SUFFICES ASSUME FaultInv, Arrived, cmd.op = "inject", cmd.flag \in 1..4,
                      cmd.mode \in {11, 12, 13}
               PROVE  InjectionShows
    BY DEF InjectionShows
  <2>1. topic["rfly_ctrl"] = [mode |-> cmd.mode, flag |-> cmd.flag]
    BY DEF FaultInv, LinkInv, Arrived, Routed, Route
  <2>2. Ctrl # Unpublished /\ Ctrl.mode = cmd.mode /\ Ctrl.flag = cmd.flag
    BY <2>1 DEF Ctrl, Unpublished
  <2>3. /\ cmd.mode = 12 => Reads("accel") = {Kinds[cmd.flag]}
        /\ cmd.mode = 13 => Reads("gyro") = {Kinds[cmd.flag]}
        /\ cmd.mode = 11 => Reads("motors") = {Kinds[cmd.flag]}
    BY <2>2 DEF Reads, ImuDriverReads, MotorsDriven
  <2> QED BY <2>3 DEF FaultInv, FreshInv, InjectionShows
<1> QED BY <1>1, FaultInvariance, PTL
=============================================================================
