--------------------------- MODULE SurfaceProofs ---------------------------
(***************************************************************************)
(* Proofs about the frame slot and its views (Surface), for any number of  *)
(* views and frames and every depth.                                       *)
(*                                                                         *)
(* Every handle has four kinds of owners: the slot, the UI thread on its   *)
(* way to a renderer, the views that wait with it or draw it, and those    *)
(* that were destroyed with it.  A step moves a handle from one to another *)
(* and changes its count with it, but only if nobody holds it twice: that  *)
(* the frames of the slot are new to every view (SlotInOrder, ViewInOrder) *)
(* is what the balance needs and what the order of the takes follows from. *)
(***************************************************************************)
EXTENDS Surface, FiniteSetTheorems, TLAPS

Kinds == {"gpu", "cpu"}
Numbers == 0 .. MaxFrames

ViewType == [kind : {"rhi", "sw", "none"}, cursor : Numbers, seq : Numbers,
             pending : Numbers, inflight : Numbers, image : BOOLEAN,
             last : Numbers, stale : BOOLEAN]

HandType == {Free} \cup [view : Views, seq : 1 .. MaxFrames, frame : Frames, kind : Kinds]

Types ==
    /\ queue \in Seq(EntryType)
    /\ seq \in Numbers /\ frames \in Numbers
    /\ refs \in [Frames -> Int] /\ lost \in [Frames -> Nat]
    /\ view \in [Views -> ViewType]
    /\ hand \in HandType
    /\ rhi \in BOOLEAN
    /\ swaps \in Nat

\* Frames the decoder has published since the slot was last cleared.
Offset == frames - seq

\* The entries are consecutive, the last one being the frame last decoded.
SlotInOrder ==
    /\ Len(queue) <= Depth /\ Len(queue) <= seq /\ seq <= frames
    /\ \A i \in DOMAIN queue : /\ queue[i].seq = seq - Len(queue) + i
                               /\ queue[i].frame = frames - Len(queue) + i

\* What a view has taken, presented and drawn: in this order, and with its cursor
\* at the frame it took last unless the slot was cleared under it.
ViewInOrder(x) ==
    /\ x.last <= x.cursor + Offset
    /\ ~x.stale => x.last = x.cursor + Offset \/ (x.last = 0 /\ x.cursor = 0)
    /\ x.kind = "none" => x.last = 0 /\ x.cursor = 0
    /\ x.kind # "rhi" => x.pending = None /\ x.inflight = None
    /\ x.seq <= x.cursor /\ x.pending <= x.last /\ x.inflight <= x.last
    /\ x.pending # None => x.inflight < x.pending

\* What is on its way to a renderer is newer than what the renderer has.
HandInOrder ==
    hand # Free => LET x == view[hand.view]
                   IN /\ x.kind # "none"
                      /\ x.seq < hand.seq /\ x.pending < hand.frame /\ x.inflight < hand.frame
                      /\ hand.seq = x.cursor /\ hand.frame = x.last

IInv ==
    /\ Types
    /\ SlotInOrder
    /\ \A v \in Views : ViewInOrder(view[v])
    /\ HandInOrder
    /\ HandlesBalance

-----------------------------------------------------------------------------
Count(b) == IF b THEN 1 ELSE 0

\* A set of views that gains or loses one member.
LEMMA OneMember ==
    ASSUME NEW P \in SUBSET Views, NEW Q \in SUBSET Views, NEW v \in Views,
           \A w \in Views \ {v} : w \in P <=> w \in Q
    PROVE  /\ Cardinality(P) \in Nat /\ Cardinality(Q) \in Nat
           /\ Cardinality(Q) = Cardinality(P) - Count(v \in P) + Count(v \in Q)
<1>1. IsFiniteSet(P) /\ IsFiniteSet(Q)
  BY SurfaceAssumption, FS_Subset
<1>2. Cardinality(P) \in Nat /\ Cardinality(Q) \in Nat
  BY <1>1, FS_CardinalityType
<1>3. CASE v \in P /\ v \notin Q
  <2>1. Q = P \ {v}
    BY <1>3
  <2>2. Cardinality(P \ {v}) = Cardinality(P) - 1
    BY <1>1, <1>3, FS_RemoveElement
  <2> QED BY <1>2, <1>3, <2>1, <2>2 DEF Count
<1>4. CASE v \notin P /\ v \in Q
  <2>1. Q = P \cup {v}
    BY <1>4
  <2>2. Cardinality(P \cup {v}) = Cardinality(P) + 1
    BY <1>1, <1>4, FS_AddElement
  <2> QED BY <1>2, <1>4, <2>1, <2>2 DEF Count
<1>5. CASE v \in P <=> v \in Q
  <2>1. P = Q
    BY <1>5
  <2> QED BY <1>2, <1>5, <2>1 DEF Count
<1> QED BY <1>3, <1>4, <1>5

LEMMA OneView ==
    ASSUME Types, NEW v \in Views, \A w \in Views \ {v} : view'[w] = view[w], NEW f
    PROVE  /\ Cardinality(Waiting(f)) \in Nat /\ Cardinality(Drawing(f)) \in Nat
           /\ Cardinality(Waiting(f))' = Cardinality(Waiting(f))
                 - Count(view[v].pending = f) + Count(view'[v].pending = f)
           /\ Cardinality(Drawing(f))' = Cardinality(Drawing(f))
                 - Count(view[v].inflight = f) + Count(view'[v].inflight = f)
<1>1. /\ \A w \in Views : w \in Waiting(f) <=> view[w].pending = f
      /\ \A w \in Views : w \in Waiting(f)' <=> view'[w].pending = f
      /\ \A w \in Views : w \in Drawing(f) <=> view[w].inflight = f
      /\ \A w \in Views : w \in Drawing(f)' <=> view'[w].inflight = f
  BY DEF Waiting, Drawing
<1>2. /\ Waiting(f) \in SUBSET Views /\ Waiting(f)' \in SUBSET Views
      /\ Drawing(f) \in SUBSET Views /\ Drawing(f)' \in SUBSET Views
  BY DEF Waiting, Drawing
<1>3. /\ \A w \in Views \ {v} : w \in Waiting(f) <=> w \in Waiting(f)'
      /\ \A w \in Views \ {v} : w \in Drawing(f) <=> w \in Drawing(f)'
  BY <1>1
<1>4. /\ Cardinality(Waiting(f)) \in Nat
      /\ Cardinality(Waiting(f)') = Cardinality(Waiting(f))
            - Count(v \in Waiting(f)) + Count(v \in Waiting(f)')
  BY <1>2, <1>3, OneMember
<1>5. /\ Cardinality(Drawing(f)) \in Nat
      /\ Cardinality(Drawing(f)') = Cardinality(Drawing(f))
            - Count(v \in Drawing(f)) + Count(v \in Drawing(f)')
  BY <1>2, <1>3, OneMember
<1> QED BY <1>1, <1>4, <1>5 DEF Count

LEMMA HandlesOfOne ==
    ASSUME NEW e, NEW f
    PROVE  f \in Handles(<<e>>) <=> e.kind = "gpu" /\ e.frame = f
  BY DEF Handles, ToSet

LEMMA HandlesOfMany ==
    ASSUME NEW q, NEW f
    PROVE  f \in Handles(q) <=> \E i \in DOMAIN q : q[i].kind = "gpu" /\ q[i].frame = f
  BY DEF Handles, ToSet

Balanced(f) ==
    refs[f] = Count(f \in Handles(queue)) + Count(Carried(f))
              + Cardinality(Waiting(f)) + Cardinality(Drawing(f)) + lost[f]

LEMMA BalanceIsBalanced == HandlesBalance <=> \A f \in Frames : Balanced(f)
  BY DEF HandlesBalance, Balanced, Count

LEMMA HandMembers ==
    ASSUME Types, hand # Free
    PROVE  /\ hand.view \in Views /\ hand.seq \in 1 .. MaxFrames /\ hand.frame \in Frames
           /\ hand.kind \in Kinds
  BY DEF Types, HandType

LEMMA HandHeld ==
    ASSUME NEW v, NEW s, NEW f, NEW k
    PROVE  [view |-> v, seq |-> s, frame |-> f, kind |-> k] # Free
<1>1. DOMAIN [view |-> v, seq |-> s, frame |-> f, kind |-> k] # DOMAIN Free
  BY DEF Free
<1> QED BY <1>1

Changed(v, x) ==
    /\ view' \in [Views -> ViewType]
    /\ view'[v] = x
    /\ \A w \in Views \ {v} : view'[w] = view[w]

\* A step of one view, with the hand it fills or empties.
LEMMA ViewStep ==
    ASSUME IInv, NEW v \in Views, NEW x, Changed(v, x), ViewInOrder(x),
           UNCHANGED <<queue, seq, frames>>, hand' \in HandType, HandInOrder',
           rhi' \in BOOLEAN, swaps' \in Nat, lost' \in [Frames -> Nat],
           refs' \in [Frames -> Int],
           \A f \in Frames :
              refs'[f] = refs[f] + Count(Carried(f))' - Count(Carried(f))
                         + Count(x.pending = f) - Count(view[v].pending = f)
                         + Count(x.inflight = f) - Count(view[v].inflight = f)
                         + lost'[f] - lost[f]
    PROVE  IInv'
<1>1. Types'
  BY DEF IInv, Types, Changed
<1>2. SlotInOrder'
  BY DEF IInv, SlotInOrder
<1>3. \A w \in Views : ViewInOrder(view[w])'
  BY DEF IInv, ViewInOrder, Offset, Changed
<1>4. ASSUME NEW f \in Frames PROVE Balanced(f)'
  <2>1. Balanced(f) /\ refs[f] \in Int /\ lost[f] \in Nat /\ lost'[f] \in Nat /\ Types
    BY BalanceIsBalanced DEF IInv, Types
  <2>2. /\ Cardinality(Waiting(f)) \in Nat /\ Cardinality(Drawing(f)) \in Nat
        /\ Cardinality(Waiting(f))' = Cardinality(Waiting(f))
              - Count(view[v].pending = f) + Count(x.pending = f)
        /\ Cardinality(Drawing(f))' = Cardinality(Drawing(f))
              - Count(view[v].inflight = f) + Count(x.inflight = f)
    BY <2>1, OneView DEF Changed
  <2>3. Handles(queue)' = Handles(queue)
    OBVIOUS
  <2> QED BY <2>1, <2>2, <2>3 DEF Balanced, Count
<1>5. HandlesBalance'
  BY <1>4 DEF HandlesBalance, Balanced, Count
<1> QED BY <1>1, <1>2, <1>3, <1>5 DEF IInv

LEMMA InitIInv == Init => IInv
<1> SUFFICES ASSUME Init PROVE IInv
  OBVIOUS
<1>1. Closed \in ViewType /\ Closed.kind = "none" /\ Closed.cursor = 0 /\ Closed.seq = 0
      /\ Closed.pending = None /\ Closed.inflight = None /\ Closed.last = 0
      /\ Closed.stale = FALSE
  BY SurfaceAssumption DEF Closed, Renderer, ViewType, Numbers, None
<1>2. Types
  BY <1>1, SurfaceAssumption DEF Init, Types, HandType, Numbers
<1>3. SlotInOrder /\ HandInOrder
  BY SurfaceAssumption DEF Init, SlotInOrder, HandInOrder
<1>4. \A v \in Views : ViewInOrder(view[v])
  BY <1>1 DEF Init, ViewInOrder, Offset, None
<1>5. ASSUME NEW f \in Frames PROVE Balanced(f)
  <2>1. Waiting(f) = {} /\ Drawing(f) = {}
    BY <1>1 DEF Init, Waiting, Drawing, Frames, None
  <2>2. f \notin Handles(queue) /\ ~Carried(f)
    BY HandlesOfMany DEF Init, Carried
  <2>3. Cardinality({}) = 0
    BY FS_EmptySet
  <2> QED BY <2>1, <2>2, <2>3 DEF Balanced, Count, Init
<1> QED BY <1>2, <1>3, <1>4, <1>5, BalanceIsBalanced DEF IInv

\* Where the entries of the slot are after a publication.
LEMMA PublishStep ==
    ASSUME IInv, NEW kind \in Kinds, Publish(kind)
    PROVE  IInv'
<1> DEFINE entry == [seq |-> seq + 1, frame |-> frames + 1, kind |-> kind]
           all == Append(queue, entry)
<1>1. /\ Types /\ SlotInOrder /\ queue \in Seq(EntryType) /\ seq \in Nat /\ frames \in Nat
      /\ frames < MaxFrames /\ frames' = frames + 1 /\ seq' = seq + 1
      /\ queue' = Evicted(all)
      /\ refs' = Released(Retained(refs, Handles(<<entry>>)), EvictedHandles(all))
      /\ UNCHANGED <<view, hand, rhi, lost, swaps>>
      /\ MaxFrames \in Nat /\ Depth \in Nat /\ Depth > 0
      /\ Len(queue) <= Depth /\ Len(queue) <= seq /\ seq <= frames /\ Len(queue) \in Nat
  BY SurfaceAssumption DEF IInv, Publish, Types, Numbers, SlotInOrder
<1>2. entry \in EntryType
  BY <1>1 DEF EntryType, Frames, Kinds
<1>3. /\ all \in Seq(EntryType) /\ Len(all) = Len(queue) + 1 /\ DOMAIN all = 1 .. Len(all)
      /\ all # << >>
      /\ \A i \in DOMAIN all :
            /\ all[i].seq = seq' - Len(all) + i
            /\ all[i].frame = frames' - Len(all) + i
      /\ \A i \in DOMAIN queue : i \in DOMAIN all /\ all[i] = queue[i]
      /\ all[Len(all)] = entry
      /\ \A i \in DOMAIN all : i \in DOMAIN queue \/ i = Len(all)
  <2>1. /\ all \in Seq(EntryType) /\ Len(all) = Len(queue) + 1 /\ DOMAIN all = 1 .. Len(all)
        /\ all # << >> /\ all[Len(all)] = entry
        /\ DOMAIN queue = 1 .. Len(queue)
        /\ \A i \in DOMAIN queue : i \in DOMAIN all /\ all[i] = queue[i]
    BY <1>1, <1>2
  <2> HIDE DEF all
  <2>2. \A i \in DOMAIN all : i \in DOMAIN queue \/ i = Len(all)
    BY <1>1, <2>1
  <2>3. ASSUME NEW i \in DOMAIN all
        PROVE all[i].seq = seq' - Len(all) + i /\ all[i].frame = frames' - Len(all) + i
    <3>1. CASE i = Len(all)
      BY <1>1, <2>1, <3>1
    <3>2. CASE i \in DOMAIN queue
      BY <1>1, <2>1, <3>2 DEF SlotInOrder
    <3> QED BY <2>2, <2>3, <3>1, <3>2
  <2> QED BY <2>1, <2>2, <2>3
<1> HIDE DEF all
<1>4. /\ queue' \in Seq(EntryType) /\ Len(queue') <= Depth /\ Len(queue') <= seq'
      /\ \A i \in DOMAIN queue' : /\ queue'[i].seq = seq' - Len(queue') + i
                                  /\ queue'[i].frame = frames' - Len(queue') + i
  <2>1. CASE Len(all) > Depth
    <3>1. queue' = Tail(all)
      BY <1>1, <2>1 DEF Evicted
    <3>2. /\ Tail(all) \in Seq(EntryType) /\ Len(Tail(all)) = Len(all) - 1
          /\ DOMAIN Tail(all) = 1 .. Len(all) - 1
          /\ \A i \in DOMAIN Tail(all) : i + 1 \in DOMAIN all /\ Tail(all)[i] = all[i + 1]
      BY <1>3
    <3>3. ASSUME NEW i \in DOMAIN Tail(all)
          PROVE  /\ Tail(all)[i].seq = seq' - Len(Tail(all)) + i
                 /\ Tail(all)[i].frame = frames' - Len(Tail(all)) + i
      <4>1. i \in Nat /\ i + 1 \in DOMAIN all /\ Tail(all)[i] = all[i + 1]
        BY <1>1, <1>3, <3>2
      <4>2. /\ all[i + 1].seq = seq' - Len(all) + (i + 1)
            /\ all[i + 1].frame = frames' - Len(all) + (i + 1)
        BY <1>3, <4>1
      <4>3. seq' \in Int /\ frames' \in Int /\ Len(all) \in Int
        BY <1>1, <1>3
      <4> QED BY <3>2, <4>1, <4>2, <4>3
    <3> QED BY <1>1, <1>3, <3>1, <3>2, <3>3
  <2>2. CASE ~(Len(all) > Depth)
    <3>1. queue' = all
      BY <1>1, <2>2 DEF Evicted
    <3>2. Len(all) <= Depth
      BY <1>1, <1>3, <2>2
    <3>3. Len(all) <= seq'
      BY <1>1, <1>3
    <3> QED BY <1>3, <3>1, <3>2, <3>3
  <2> QED BY <2>1, <2>2
<1>5. refs' \in [Frames -> Int] /\ \A f \in Frames :
         refs'[f] = refs[f] + Count(f \in Handles(<<entry>>)) - Count(f \in EvictedHandles(all))
  BY <1>1 DEF Released, Retained, Count, Types
<1>6. Types' /\ SlotInOrder' /\ Offset' = Offset
  <2>1. seq' \in Numbers /\ frames' \in Numbers /\ seq' <= frames' /\ Offset' = Offset
    BY <1>1 DEF Offset, Numbers
  <2>2. Types'
    BY <1>1, <1>4, <1>5, <2>1 DEF Types
  <2>3. SlotInOrder'
    BY <1>4, <2>1 DEF SlotInOrder
  <2> QED BY <2>1, <2>2, <2>3
<1>7. (\A v \in Views : ViewInOrder(view[v])') /\ HandInOrder'
  BY <1>1, <1>6 DEF IInv, ViewInOrder, HandInOrder
<1>8. ASSUME NEW f \in Frames PROVE Balanced(f)'
  <2>1. /\ Waiting(f)' = Waiting(f)
        /\ Drawing(f)' = Drawing(f)
        /\ (Carried(f)' <=> Carried(f))
    BY <1>1 DEF Waiting, Drawing, Carried
  <2>2. /\ f \in Handles(<<entry>>) <=> kind = "gpu" /\ f = frames'
        /\ f \in Handles(queue) <=> \E i \in DOMAIN queue : queue[i].kind = "gpu" /\ queue[i].frame = f
        /\ f \in Handles(queue') <=>
              \E i \in DOMAIN queue' : queue'[i].kind = "gpu" /\ queue'[i].frame = f
        /\ f \in Handles(<<Head(all)>>) <=> Head(all).kind = "gpu" /\ Head(all).frame = f
    BY <1>1, HandlesOfOne, HandlesOfMany
  <2>3. f \in Handles(all) <=> f \in Handles(queue) \/ f \in Handles(<<entry>>)
    <3>1. f \in Handles(all) <=> \E i \in DOMAIN all : all[i].kind = "gpu" /\ all[i].frame = f
      BY HandlesOfMany
    <3>2. all[Len(all)] = entry /\ Len(all) \in DOMAIN all
      BY <1>1, <1>3
    <3>3. entry.kind = kind /\ entry.frame = frames'
      BY <1>1
    <3> HIDE DEF entry
    <3>4. f \in Handles(queue) \/ f \in Handles(<<entry>>) => f \in Handles(all)
      BY <1>3, <2>2, <3>1, <3>2, <3>3
    <3>5. f \in Handles(all) => f \in Handles(queue) \/ f \in Handles(<<entry>>)
      BY <1>3, <2>2, <3>1, <3>2, <3>3
    <3> QED BY <3>4, <3>5
  <2>4. ~(f \in Handles(queue) /\ f \in Handles(<<entry>>))
    <3>1. ASSUME NEW i \in DOMAIN queue PROVE queue[i].frame # frames'
      <4>1. i \in 1 .. Len(queue) /\ queue[i].frame = frames - Len(queue) + i
        BY <1>1 DEF SlotInOrder
      <4> QED BY <1>1, <4>1
    <3> QED BY <2>2, <3>1
  <2>5. /\ f \in EvictedHandles(all) => f \in Handles(all) /\ f \notin Handles(queue')
        /\ f \in Handles(all) <=> f \in Handles(queue') \/ f \in EvictedHandles(all)
    <3>1. CASE Len(all) > Depth
      <4>1. queue' = Tail(all) /\ EvictedHandles(all) = Handles(<<Head(all)>>)
        BY <1>1, <3>1 DEF Evicted, EvictedHandles
      <4>2. /\ Head(all) = all[1] /\ 1 \in DOMAIN all
            /\ DOMAIN Tail(all) = 1 .. Len(all) - 1
            /\ \A i \in DOMAIN Tail(all) : i + 1 \in DOMAIN all /\ Tail(all)[i] = all[i + 1]
            /\ \A i \in DOMAIN all : i = 1 \/ (i - 1 \in DOMAIN Tail(all) /\ Tail(all)[i - 1] = all[i])
        BY <1>1, <1>3
      <4>3. f \in Handles(all) <=> \E i \in DOMAIN all : all[i].kind = "gpu" /\ all[i].frame = f
        BY HandlesOfMany
      <4>4. \A i \in DOMAIN Tail(all) : Tail(all)[i].frame # Head(all).frame
        <5>1. ASSUME NEW i \in DOMAIN Tail(all) PROVE Tail(all)[i].frame # Head(all).frame
          <6>1. i \in Nat /\ i > 0
            BY <1>1, <1>3, <4>2
          <6>2. /\ all[i + 1].frame = frames' - Len(all) + (i + 1)
                /\ all[1].frame = frames' - Len(all) + 1
            BY <1>3, <4>2
          <6> QED BY <1>1, <1>3, <4>2, <6>1, <6>2
        <5> QED BY <5>1
      <4>5. f \in EvictedHandles(all) => f \in Handles(all) /\ f \notin Handles(queue')
        BY <2>2, <4>1, <4>2, <4>3, <4>4
      <4>6. f \in Handles(all) => f \in Handles(queue') \/ f \in EvictedHandles(all)
        BY <2>2, <4>1, <4>2, <4>3
      <4>7. f \in Handles(queue') => f \in Handles(all)
        BY <2>2, <4>1, <4>2, <4>3
      <4> QED BY <4>5, <4>6, <4>7
    <3>2. CASE ~(Len(all) > Depth)
      BY <1>1, <3>2 DEF Evicted, EvictedHandles
    <3> QED BY <3>1, <3>2
  <2>6. Balanced(f) /\ refs[f] \in Int /\ lost[f] \in Nat
    BY BalanceIsBalanced DEF IInv, Types
  <2>7. Cardinality(Waiting(f)) \in Nat /\ Cardinality(Drawing(f)) \in Nat
    <3>1. Waiting(f) \subseteq Views /\ Drawing(f) \subseteq Views
      BY DEF Waiting, Drawing
    <3> QED BY <3>1, SurfaceAssumption, FS_Subset, FS_CardinalityType
  <2>8. Count(f \in Handles(queue')) = Count(f \in Handles(queue)) + Count(f \in Handles(<<entry>>))
                                       - Count(f \in EvictedHandles(all))
    BY <2>3, <2>4, <2>5 DEF Count
  <2>9. refs'[f] = refs[f] + Count(f \in Handles(<<entry>>)) - Count(f \in EvictedHandles(all))
    BY <1>5
  <2>10. lost' = lost
    BY <1>1
  <2>11. Count(f \in Handles(queue)) \in Int /\ Count(f \in Handles(<<entry>>)) \in Int
         /\ Count(f \in EvictedHandles(all)) \in Int /\ Count(Carried(f)) \in Int
    BY DEF Count
  <2> HIDE DEF Count, entry
  <2>12. refs'[f] = Count(f \in Handles(queue')) + Count(Carried(f)) + Cardinality(Waiting(f))
                    + Cardinality(Drawing(f)) + lost[f]
    BY <2>6, <2>7, <2>8, <2>9, <2>11 DEF Balanced
  <2>13. Count(Carried(f))' = Count(Carried(f))
    BY <2>1 DEF Count
  <2> QED BY <2>1, <2>10, <2>12, <2>13 DEF Balanced
<1>9. HandlesBalance'
  BY <1>8 DEF HandlesBalance, Balanced, Count
<1> QED BY <1>6, <1>7, <1>9 DEF IInv

LEMMA ClearStep == IInv /\ Clear => IInv'
<1> SUFFICES ASSUME IInv, Clear PROVE IInv'
  OBVIOUS
<1>1. /\ Types /\ SlotInOrder /\ seq \in Nat /\ frames \in Nat /\ seq <= frames
      /\ refs' = Released(refs, Handles(queue)) /\ queue' = << >> /\ seq' = 0
      /\ view' = [v \in Views |-> [view[v] EXCEPT !.stale = Open(v)]]
      /\ UNCHANGED <<hand, rhi, frames, lost, swaps>>
  BY DEF IInv, Clear, Types, SlotInOrder, Numbers
<1>2. ASSUME NEW v \in Views
      PROVE  /\ view'[v] \in ViewType /\ view'[v].stale = (view[v].kind # "none")
             /\ view'[v].kind = view[v].kind /\ view'[v].cursor = view[v].cursor
             /\ view'[v].seq = view[v].seq /\ view'[v].pending = view[v].pending
             /\ view'[v].inflight = view[v].inflight /\ view'[v].last = view[v].last
  <2>1. view[v] \in ViewType /\ Open(v) \in BOOLEAN /\ Open(v) = (view[v].kind # "none")
    BY <1>1 DEF Types, Open
  <2>2. view'[v] = [view[v] EXCEPT !.stale = Open(v)]
    BY <1>1
  <2> QED BY <2>1, <2>2 DEF ViewType
<1>3. Types'
  <2>1. view' \in [Views -> ViewType]
    BY <1>1, <1>2
  <2>2. refs' \in [Frames -> Int]
    BY <1>1 DEF Types, Released
  <2>3. seq' \in Numbers /\ queue' \in Seq(EntryType)
    BY <1>1, SurfaceAssumption DEF Numbers
  <2>4. frames' \in Numbers /\ lost' \in [Frames -> Nat] /\ hand' \in HandType
        /\ rhi' \in BOOLEAN /\ swaps' \in Nat
    BY <1>1 DEF Types
  <2> QED BY <2>1, <2>2, <2>3, <2>4 DEF Types
<1>4. SlotInOrder'
  BY <1>1, SurfaceAssumption DEF SlotInOrder
<1>5. ASSUME NEW v \in Views PROVE ViewInOrder(view[v])'
  <2>1. ViewInOrder(view[v]) /\ view[v] \in ViewType
    BY <1>1 DEF IInv, Types
  <2>2. Offset \in Nat /\ Offset' \in Nat /\ Offset <= Offset'
    BY <1>1 DEF Offset
  <2> QED BY <1>2, <2>1, <2>2 DEF ViewInOrder, ViewType, Numbers
<1>6. HandInOrder'
  BY <1>1, <1>2, HandMembers DEF IInv, HandInOrder
<1>7. ASSUME NEW f \in Frames PROVE Balanced(f)'
  <2>1. /\ Waiting(f)' = Waiting(f)
        /\ Drawing(f)' = Drawing(f)
        /\ (Carried(f)' <=> Carried(f))
    BY <1>1, <1>2 DEF Waiting, Drawing, Carried
  <2>2. Balanced(f) /\ refs[f] \in Int /\ lost[f] \in Nat
    BY BalanceIsBalanced DEF IInv, Types
  <2>3. refs'[f] = refs[f] - Count(f \in Handles(queue))
    BY <1>1, <2>2 DEF Released, Count
  <2>4. f \notin Handles(queue)'
    BY <1>1, HandlesOfMany
  <2>5. Cardinality(Waiting(f)) \in Nat /\ Cardinality(Drawing(f)) \in Nat
    <3>1. Waiting(f) \subseteq Views /\ Drawing(f) \subseteq Views
      BY DEF Waiting, Drawing
    <3> QED BY <3>1, SurfaceAssumption, FS_Subset, FS_CardinalityType
  <2>6. Count(f \in Handles(queue)) \in Int /\ Count(Carried(f)) \in Int
        /\ Count(f \in Handles(queue))' = 0 /\ Count(Carried(f))' = Count(Carried(f))
    BY <2>1, <2>4 DEF Count
  <2> HIDE DEF Count
  <2>7. refs'[f] = Count(Carried(f)) + Cardinality(Waiting(f)) + Cardinality(Drawing(f)) + lost[f]
    BY <2>2, <2>3, <2>5, <2>6 DEF Balanced
  <2>8. lost' = lost
    BY <1>1
  <2> QED BY <2>1, <2>2, <2>5, <2>6, <2>7, <2>8 DEF Balanced
<1>8. HandlesBalance'
  BY <1>7 DEF HandlesBalance, Balanced, Count
<1> QED BY <1>3, <1>4, <1>5, <1>6, <1>8 DEF IInv

\* The entry a view takes is newer, by its frame number too, than the last it
\* had, and unless the channel was rebuilt it is the one after it or the oldest.
LEMMA TakenEntry ==
    ASSUME IInv, NEW v \in Views, NEW i \in DOMAIN queue, Picked(i, view[v].cursor)
    PROVE  /\ i \in 1 .. Len(queue) /\ queue[i] \in EntryType
           /\ queue[i].seq > view[v].cursor /\ queue[i].frame > view[v].last
           /\ queue[i].frame = queue[i].seq + Offset
           /\ queue[i].frame > frames - Depth
           /\ ~view[v].stale => \A j \in DOMAIN queue :
                 queue[j].frame > view[v].last => queue[j].frame >= queue[i].frame
<1>1. /\ i \in 1 .. Len(queue) /\ DOMAIN queue = 1 .. Len(queue) /\ Len(queue) \in Nat
      /\ queue[i] \in EntryType /\ seq \in Nat /\ frames \in Nat
      /\ view[v] \in ViewType /\ ViewInOrder(view[v]) /\ MaxFrames \in Nat
      /\ Depth \in Nat /\ SlotInOrder /\ Len(queue) <= Depth
  BY SurfaceAssumption DEF IInv, Types, Numbers, SlotInOrder
<1>2. \A j \in DOMAIN queue : /\ queue[j].seq = seq - Len(queue) + j
                              /\ queue[j].frame = frames - Len(queue) + j
  BY <1>1 DEF SlotInOrder
<1>3. queue[i].seq > view[v].cursor /\ \A j \in 1 .. i - 1 : ~(queue[j].seq > view[v].cursor)
  BY DEF Picked, Newer
<1>4. /\ view[v].last <= view[v].cursor + Offset /\ view[v].last \in Nat
      /\ view[v].cursor \in Nat /\ Offset \in Int /\ Offset = frames - seq
      /\ ~view[v].stale => view[v].last = view[v].cursor + Offset
                             \/ (view[v].last = 0 /\ view[v].cursor = 0)
  BY <1>1 DEF ViewInOrder, ViewType, Numbers, Offset
<1>7. queue \in Seq(EntryType)
  BY DEF IInv, Types
<1>5. queue[i].frame = queue[i].seq + Offset /\ queue[i].frame > frames - Depth
      /\ queue[i].frame > view[v].last
  <2>1. i \in Nat /\ i >= 1 /\ Len(queue) <= Depth /\ Len(queue) \in Int
    BY <1>1
  <2>2. queue[i].seq = seq - Len(queue) + i /\ queue[i].frame = frames - Len(queue) + i
    BY <1>2
  <2>3. queue[i].seq > view[v].cursor
    BY <1>3
  <2>4. /\ seq \in Int /\ frames \in Int /\ Depth \in Int /\ view[v].cursor \in Int
        /\ Offset = frames - seq /\ view[v].last <= view[v].cursor + Offset
        /\ view[v].last \in Int
    BY <1>1, <1>4
  <2> QED BY <2>1, <2>2, <2>3, <2>4
<1>6. ASSUME ~view[v].stale, NEW j \in DOMAIN queue, queue[j].frame > view[v].last
      PROVE  queue[j].frame >= queue[i].frame
  <2>1. j \in Nat /\ j >= 1 /\ j <= Len(queue) /\ i \in Nat /\ i >= 1
    BY <1>1
  <2>2. /\ queue[j].seq = seq - Len(queue) + j /\ queue[j].frame = frames - Len(queue) + j
        /\ queue[i].seq = seq - Len(queue) + i /\ queue[i].frame = frames - Len(queue) + i
    BY <1>1, <1>2
  <2>3. CASE view[v].last = view[v].cursor + Offset
    <3>1. queue[j].seq > view[v].cursor
      BY <1>1, <1>4, <1>6, <2>1, <2>2, <2>3
    <3>2. ~(j <= i - 1)
      BY <1>3, <2>1, <3>1
    <3> QED BY <1>1, <2>1, <2>2, <3>2
  <2>4. CASE view[v].last = 0 /\ view[v].cursor = 0
    <3>1. ASSUME j <= i - 1 PROVE FALSE
      <4>1. ~(queue[j].seq > 0)
        BY <1>3, <2>1, <2>4, <3>1
      <4>2. queue[j] \in EntryType
        BY <1>7
      <4> QED BY <4>1, <4>2, <1>1 DEF EntryType
    <3> QED BY <1>1, <2>1, <2>2, <3>1
  <2> QED BY <1>4, <1>6, <2>3, <2>4
<1> QED BY <1>1, <1>3, <1>5, <1>6

LEMMA TakeStep ==
    ASSUME IInv, NEW v \in Views, Take(v)
    PROVE  IInv'
<1>1. PICK i \in DOMAIN queue :
         /\ Picked(i, view[v].cursor)
         /\ hand' = [view |-> v, seq |-> queue[i].seq, frame |-> queue[i].frame,
                     kind |-> queue[i].kind]
         /\ view' = [view EXCEPT ![v].cursor = queue[i].seq, ![v].last = queue[i].frame]
         /\ refs' = Retained(refs, Handles(<<queue[i]>>))
  BY DEF Take
<1> DEFINE e == queue[i]
<1>2. /\ e \in EntryType /\ e.seq > view[v].cursor /\ e.frame > view[v].last
      /\ e.frame = e.seq + Offset
  BY <1>1, TakenEntry
<1> HIDE DEF e
<1>3. /\ Types /\ view[v] \in ViewType /\ ViewInOrder(view[v]) /\ hand = Free /\ Open(v)
      /\ UNCHANGED <<queue, seq, rhi, frames, lost, swaps>>
      /\ view[v].kind # "none" /\ MaxFrames \in Nat
  BY SurfaceAssumption DEF IInv, Types, Take, Open
<1> DEFINE x == [view[v] EXCEPT !.cursor = e.seq, !.last = e.frame]
<1>4. /\ x \in ViewType /\ x.cursor = e.seq /\ x.last = e.frame /\ x.kind = view[v].kind
      /\ x.seq = view[v].seq /\ x.pending = view[v].pending /\ x.inflight = view[v].inflight
      /\ x.stale = view[v].stale
  <2>1. e.seq \in Numbers /\ e.frame \in Numbers
    BY <1>2, <1>3 DEF EntryType, Frames, Numbers
  <2> QED BY <1>3, <2>1 DEF ViewType
<1>5. Changed(v, x)
  BY <1>1, <1>3, <1>4 DEF Changed, Types, e
<1> HIDE DEF x
<1>6. ViewInOrder(x)
  BY <1>2, <1>3, <1>4 DEF ViewInOrder, ViewType, Numbers, EntryType, Frames
<1>7. hand' = [view |-> v, seq |-> e.seq, frame |-> e.frame, kind |-> e.kind]
  BY <1>1 DEF e
<1>8. hand' \in HandType /\ hand' # Free
  BY <1>2, <1>7, HandHeld DEF HandType, EntryType, Kinds
<1>9. HandInOrder'
  BY <1>2, <1>3, <1>4, <1>5, <1>7
  DEF HandInOrder, Changed, ViewInOrder, ViewType, Numbers, EntryType, Frames
<1>10. refs' \in [Frames -> Int]
  BY <1>1, <1>3 DEF Types, Retained
<1>11. ASSUME NEW f \in Frames
       PROVE refs'[f] = refs[f] + Count(Carried(f))' - Count(Carried(f))
                         + Count(x.pending = f) - Count(view[v].pending = f)
                         + Count(x.inflight = f) - Count(view[v].inflight = f)
                         + lost'[f] - lost[f]
  <2>1. refs[f] \in Int /\ lost[f] \in Int /\ lost' = lost
    BY <1>3 DEF Types
  <2>2. ~Carried(f) /\ (Carried(f)' <=> f \in Handles(<<e>>))
    BY <1>3, <1>7, <1>8, HandlesOfOne DEF Carried
  <2>3. refs'[f] = refs[f] + Count(f \in Handles(<<e>>))
    BY <1>1, <2>1 DEF Retained, Count, e
  <2> QED BY <1>4, <2>1, <2>2, <2>3 DEF Count
<1> QED BY <1>3, <1>5, <1>6, <1>8, <1>9, <1>10, <1>11, ViewStep DEF IInv, Types
-----------------------------------------------------------------------------
LEMMA OwnedMember ==
    ASSUME NEW f \in Frames, NEW g
    PROVE  f \in Owned(g) <=> g = f
  BY SurfaceAssumption DEF Owned, Frames, None

LEMMA ReleasedCounts ==
    ASSUME NEW counts \in [Frames -> Int], NEW H
    PROVE  /\ Released(counts, H) \in [Frames -> Int]
           /\ \A f \in Frames : Released(counts, H)[f] = counts[f] - Count(f \in H)
  BY DEF Released, Count

LEMMA PresentStep == IInv /\ Present => IInv'
<1> SUFFICES ASSUME IInv, Present PROVE IInv'
  OBVIOUS
<1> DEFINE v == hand.view
<1>1. /\ Types /\ hand # Free /\ v \in Views /\ hand.seq \in 1 .. MaxFrames
      /\ hand.frame \in Frames /\ hand.kind \in Kinds
      /\ view[v] \in ViewType /\ ViewInOrder(view[v]) /\ MaxFrames \in Nat
      /\ hand' = Free /\ UNCHANGED <<queue, seq, rhi, frames, lost, swaps>>
      /\ refs \in [Frames -> Int] /\ lost \in [Frames -> Nat] /\ view \in [Views -> ViewType]
      /\ rhi \in BOOLEAN /\ swaps \in Nat
  BY HandMembers, SurfaceAssumption DEF Present, IInv, Types
<1>2. /\ view[v].kind # "none" /\ view[v].seq < hand.seq /\ view[v].pending < hand.frame
      /\ view[v].inflight < hand.frame /\ hand.seq = view[v].cursor /\ hand.frame = view[v].last
  BY <1>1 DEF IInv, HandInOrder
<1>3. hand.seq # view[v].seq
  BY <1>1, <1>2 DEF ViewType, Numbers
<1>4. ASSUME NEW f \in Frames
      PROVE  /\ Carried(f) <=> f \in Handles(<<hand>>)
             /\ f \in Handles(<<hand>>) <=> hand.kind = "gpu" /\ hand.frame = f
             /\ Carried(f)' = FALSE
             /\ refs[f] \in Int /\ lost[f] \in Int
  BY <1>1, HandlesOfOne DEF Carried
<1>5. hand' \in HandType /\ HandInOrder'
  BY <1>1 DEF HandType, HandInOrder
<1>9. hand.seq \in Numbers /\ hand.frame \in Numbers
  BY <1>1 DEF Numbers, Frames
<1> HIDE DEF v
<1>6. CASE view' = [view EXCEPT ![v].seq = hand.seq, ![v].image = TRUE]
           /\ refs' = Released(refs, Handles(<<hand>>))
  <2> DEFINE x == [view[v] EXCEPT !.seq = hand.seq, !.image = TRUE]
  <2>1. /\ x \in ViewType /\ x.cursor = view[v].cursor /\ x.last = view[v].last
        /\ x.kind = view[v].kind /\ x.seq = hand.seq /\ x.pending = view[v].pending
        /\ x.inflight = view[v].inflight /\ x.stale = view[v].stale
    BY <1>1, <1>9 DEF ViewType
  <2>2. Changed(v, x)
    BY <1>1, <1>6, <2>1 DEF Changed
  <2> HIDE DEF x
  <2>3. ViewInOrder(x)
    BY <1>1, <1>2, <2>1 DEF ViewInOrder, ViewType, Numbers
  <2>4. refs' \in [Frames -> Int] /\ \A f \in Frames : refs'[f] = refs[f] - Count(f \in Handles(<<hand>>))
    BY <1>1, <1>6, ReleasedCounts
  <2>5. ASSUME NEW f \in Frames
        PROVE refs'[f] = refs[f] + Count(Carried(f))' - Count(Carried(f))
                         + Count(x.pending = f) - Count(view[v].pending = f)
                         + Count(x.inflight = f) - Count(view[v].inflight = f)
                         + lost'[f] - lost[f]
    <3>1. refs[f] \in Int /\ lost'[f] = lost[f] /\ lost[f] \in Int
          /\ refs'[f] = refs[f] - Count(f \in Handles(<<hand>>))
      BY <1>1, <1>4, <2>4
    <3>2. Count(Carried(f))' = 0 /\ Count(Carried(f)) = Count(f \in Handles(<<hand>>))
      BY <1>4 DEF Count
    <3>3. Count(x.pending = f) = Count(view[v].pending = f)
          /\ Count(x.inflight = f) = Count(view[v].inflight = f)
      BY <2>1
    <3>4. Count(f \in Handles(<<hand>>)) \in Int /\ Count(view[v].pending = f) \in Int
          /\ Count(view[v].inflight = f) \in Int
      BY DEF Count
    <3> QED BY <3>1, <3>2, <3>3, <3>4
  <2> QED BY <1>1, <1>5, <2>2, <2>3, <2>4, <2>5, ViewStep
<1>7. CASE hand.kind = "gpu" /\ view[v].kind = "rhi"
           /\ view' = [view EXCEPT ![v].seq = hand.seq, ![v].pending = hand.frame]
           /\ refs' = Released(refs, Replaced(v))
  <2> DEFINE x == [view[v] EXCEPT !.seq = hand.seq, !.pending = hand.frame]
  <2>1. /\ x \in ViewType /\ x.cursor = view[v].cursor /\ x.last = view[v].last
        /\ x.kind = view[v].kind /\ x.seq = hand.seq /\ x.pending = hand.frame
        /\ x.inflight = view[v].inflight /\ x.stale = view[v].stale
    BY <1>1, <1>9 DEF ViewType
  <2>2. Changed(v, x)
    BY <1>1, <1>7, <2>1 DEF Changed
  <2> HIDE DEF x
  <2>3. ViewInOrder(x)
    BY <1>1, <1>2, <1>7, <2>1 DEF ViewInOrder, ViewType, Numbers, Frames, None
  <2>4. refs' \in [Frames -> Int] /\ \A f \in Frames : refs'[f] = refs[f] - Count(f \in Replaced(v))
    BY <1>1, <1>7, ReleasedCounts
  <2>5. \A f \in Frames : f \in Replaced(v) <=> view[v].pending = f
    BY OwnedMember DEF Replaced
  <2>6. ASSUME NEW f \in Frames
        PROVE refs'[f] = refs[f] + Count(Carried(f))' - Count(Carried(f))
                         + Count(x.pending = f) - Count(view[v].pending = f)
                         + Count(x.inflight = f) - Count(view[v].inflight = f)
                         + lost'[f] - lost[f]
    <3>1. refs[f] \in Int /\ lost'[f] = lost[f] /\ lost[f] \in Int
          /\ refs'[f] = refs[f] - Count(f \in Replaced(v))
      BY <1>1, <1>4, <2>4
    <3>2. Count(Carried(f))' = 0 /\ Count(Carried(f)) = Count(hand.frame = f)
      BY <1>4, <1>7 DEF Count
    <3>3. Count(f \in Replaced(v)) = Count(view[v].pending = f)
      BY <2>5 DEF Count
    <3>4. Count(x.pending = f) = Count(hand.frame = f)
          /\ Count(x.inflight = f) = Count(view[v].inflight = f)
      BY <2>1
    <3>5. Count(hand.frame = f) \in Int /\ Count(view[v].pending = f) \in Int
          /\ Count(view[v].inflight = f) \in Int
      BY DEF Count
    <3> QED BY <3>1, <3>2, <3>3, <3>4, <3>5
  <2> QED BY <1>1, <1>5, <2>2, <2>3, <2>4, <2>6, ViewStep
<1>8. \/ view' = [view EXCEPT ![v].seq = hand.seq, ![v].image = TRUE]
         /\ refs' = Released(refs, Handles(<<hand>>))
      \/ hand.kind = "gpu" /\ view[v].kind = "rhi"
         /\ view' = [view EXCEPT ![v].seq = hand.seq, ![v].pending = hand.frame]
         /\ refs' = Released(refs, Replaced(v))
  BY <1>3 DEF Present, PresentSw, PresentRhi, PresentNv12, PresentRgba, v
<1> QED BY <1>6, <1>7, <1>8

Exchanged(v, x) ==
    \A f \in Frames : refs'[f] - lost'[f] = refs[f] - lost[f]
                         + Count(x.pending = f) - Count(view[v].pending = f)
                         + Count(x.inflight = f) - Count(view[v].inflight = f)

\* A step of one view that returns handles it owned, or loses them with its
\* renderer, while the UI thread holds no frame.
LEMMA OwnStep ==
    ASSUME IInv, NEW v \in Views, NEW x, hand = Free, hand' = hand,
           Changed(v, x), ViewInOrder(x), UNCHANGED <<queue, seq, frames>>,
           rhi' \in BOOLEAN, swaps' \in Nat, lost' \in [Frames -> Nat],
           refs' \in [Frames -> Int], Exchanged(v, x)
    PROVE  IInv'
<1>1. hand' \in HandType /\ HandInOrder'
  BY DEF HandType, HandInOrder
<1>2. ASSUME NEW f \in Frames
      PROVE refs'[f] = refs[f] + Count(Carried(f))' - Count(Carried(f))
                         + Count(x.pending = f) - Count(view[v].pending = f)
                         + Count(x.inflight = f) - Count(view[v].inflight = f)
                         + lost'[f] - lost[f]
  <2>1. refs[f] \in Int /\ lost[f] \in Int /\ refs'[f] \in Int /\ lost'[f] \in Int
    BY DEF IInv, Types
  <2>2. Carried(f) = FALSE /\ Carried(f)' = FALSE
    BY DEF Carried
  <2>3. refs'[f] - lost'[f] = refs[f] - lost[f]
                         + Count(x.pending = f) - Count(view[v].pending = f)
                         + Count(x.inflight = f) - Count(view[v].inflight = f)
    BY DEF Exchanged
  <2> QED BY <2>1, <2>2, <2>3 DEF Count
<1> QED BY <1>1, <1>2, ViewStep

\* What the view returns to the handles or drops with its renderer.
Given(v) == Owned(view[v].pending) \cup Owned(view[v].inflight)

LEMMA GivenCount ==
    ASSUME IInv, NEW v \in Views, NEW f \in Frames
    PROVE  Count(f \in Given(v)) = Count(view[v].pending = f) + Count(view[v].inflight = f)
<1>1. view[v] \in ViewType /\ ViewInOrder(view[v])
  BY DEF IInv, Types
<1>2. f \in Given(v) <=> view[v].pending = f \/ view[v].inflight = f
  BY OwnedMember DEF Given
<1>3. ~(view[v].pending = f /\ view[v].inflight = f)
  BY <1>1, SurfaceAssumption DEF ViewInOrder, ViewType, Numbers, Frames, None
<1> QED BY <1>2, <1>3 DEF Count
\* The handles the view no longer owns are those in H and in G.
Accounts(v, x, H, G) ==
    \A f \in Frames : Count(x.pending = f) + Count(x.inflight = f)
              = Count(view[v].pending = f) + Count(view[v].inflight = f)
                - Count(f \in H) - Count(f \in G)

\* A step of one view that returns handles it owned, or loses them with its
\* renderer: what it gives up, the handles or the losses account for.
LEMMA GiveStep ==
    ASSUME IInv, NEW v \in Views, NEW x \in ViewType, NEW H, NEW G, hand = Free, hand' = hand,
           view' = [view EXCEPT ![v] = x], ViewInOrder(x), UNCHANGED <<queue, seq, frames>>,
           rhi' \in BOOLEAN, swaps' \in Nat,
           refs' = Released(refs, H), lost' = Retained(lost, G),
           Accounts(v, x, H, G)
    PROVE  IInv'
<1>1. /\ refs \in [Frames -> Int]
      /\ lost \in [Frames -> Nat]
      /\ view \in [Views -> ViewType]
  BY DEF IInv, Types
<1>2. Changed(v, x)
  BY <1>1 DEF Changed
<1>3. /\ refs' \in [Frames -> Int]
      /\ \A f \in Frames : refs'[f] = refs[f] - Count(f \in H)
  BY <1>1, ReleasedCounts
<1>4. /\ lost' \in [Frames -> Nat]
      /\ \A f \in Frames : lost'[f] = lost[f] + Count(f \in G)
  BY <1>1 DEF Retained, Count
<1>5. ASSUME NEW f \in Frames
      PROVE  refs'[f] - lost'[f] = refs[f] - lost[f]
                         + Count(x.pending = f) - Count(view[v].pending = f)
                         + Count(x.inflight = f) - Count(view[v].inflight = f)
  <2>1. /\ refs'[f] = refs[f] - Count(f \in H) /\ lost'[f] = lost[f] + Count(f \in G)
        /\ refs[f] \in Int /\ lost[f] \in Int
        /\ Count(x.pending = f) + Count(x.inflight = f)
             = Count(view[v].pending = f) + Count(view[v].inflight = f) - Count(f \in H) - Count(f \in G)
    BY <1>1, <1>3, <1>4 DEF Accounts
  <2>2. /\ Count(x.pending = f) \in Int /\ Count(x.inflight = f) \in Int
        /\ Count(view[v].pending = f) \in Int /\ Count(view[v].inflight = f) \in Int
        /\ Count(f \in H) \in Int /\ Count(f \in G) \in Int
    BY DEF Count
  <2> DEFINE a == Count(x.pending = f)
             b == Count(x.inflight = f)
             c == Count(view[v].pending = f)
             d == Count(view[v].inflight = f)
             g == Count(f \in H)
             h == Count(f \in G)
  <2>3. a \in Int /\ b \in Int /\ c \in Int /\ d \in Int /\ g \in Int /\ h \in Int
        /\ a + b = c + d - g - h /\ refs'[f] = refs[f] - g /\ lost'[f] = lost[f] + h
        /\ refs[f] \in Int /\ lost[f] \in Int
    BY <2>1, <2>2
  <2> HIDE DEF a, b, c, d, g, h
  <2>4. ASSUME NEW r \in Int, NEW l \in Int
        PROVE  (r - g) - (l + h) = r - l + a - c + b - d
    BY <2>3
  <2>5. refs'[f] - lost'[f] = refs[f] - lost[f] + a - c + b - d
    BY <2>3, <2>4
  <2> QED BY <2>5 DEF a, b, c, d
<1>6. Exchanged(v, x)
  BY <1>5 DEF Exchanged
<1> QED BY <1>2, <1>3, <1>4, <1>6, OwnStep

LEMMA NothingGiven ==
    /\ IInv => refs = Released(refs, {}) /\ lost = Retained(lost, {})
    /\ \A f \in Frames : Count(f \in {}) = 0
  BY DEF IInv, Types, Released, Retained, Count

LEMMA NoFrame == \A f \in Frames : Count(None = f) = 0
  BY SurfaceAssumption DEF Count, Frames, None

LEMMA PaintStep ==
    ASSUME IInv, NEW v \in Views, Paint(v)
    PROVE  IInv'
<1>1. /\ view[v] \in ViewType /\ ViewInOrder(view[v]) /\ view \in [Views -> ViewType]
      /\ rhi \in BOOLEAN /\ swaps \in Nat /\ 0 \in Numbers
      /\ hand = Free /\ UNCHANGED <<queue, seq, hand, rhi, frames, lost, swaps>>
      /\ lost' = Retained(lost, {}) /\ \A f \in Frames : Count(f \in {}) = 0
  BY SurfaceAssumption, NothingGiven DEF IInv, Types, Numbers, Paint
<1>2. \A f \in Frames : /\ Count(view[v].pending = f) \in Int /\ Count(view[v].inflight = f) \in Int
                         /\ Count(None = f) = 0
  BY NoFrame DEF Count
<1>3. CASE view[v].kind = "rhi" /\ RenderNv12(v)
  <2> DEFINE x == [view[v] EXCEPT !.inflight = view[v].pending, !.pending = None]
  <2>1. /\ x \in ViewType
        /\ x.pending = None
        /\ x.inflight = view[v].pending
        /\ x.kind = view[v].kind
        /\ x.cursor = view[v].cursor /\ x.seq = view[v].seq /\ x.last = view[v].last
        /\ x.stale = view[v].stale
    BY <1>1 DEF ViewType, None
  <2>2. /\ view' = [view EXCEPT ![v] = x]
        /\ refs' = Released(refs, Owned(view[v].inflight))
    BY <1>1, <1>3 DEF RenderNv12
  <2> HIDE DEF x
  <2>3. ViewInOrder(x)
    BY <1>1, <1>3, <2>1 DEF ViewInOrder, ViewType, Numbers, None
  <2>4. Accounts(v, x, Owned(view[v].inflight), {})
    <3>1. \A f \in Frames : Count(f \in Owned(view[v].inflight)) = Count(view[v].inflight = f)
      BY OwnedMember DEF Count
    <3> HIDE DEF Count
    <3> QED BY <1>1, <1>2, <2>1, <3>1 DEF Accounts
  <2> QED BY <1>1, <2>1, <2>2, <2>3, <2>4, GiveStep
<1>4. CASE view[v].kind = "rhi" /\ RenderFails(v)
  <2> DEFINE x == [view[v] EXCEPT !.pending = None]
  <2>1. /\ x \in ViewType
        /\ x.pending = None
        /\ x.inflight = view[v].inflight
        /\ x.kind = view[v].kind
        /\ x.cursor = view[v].cursor /\ x.seq = view[v].seq /\ x.last = view[v].last
        /\ x.stale = view[v].stale
    BY <1>1 DEF ViewType, None
  <2>2. view' = [view EXCEPT ![v] = x] /\ refs' = Released(refs, {view[v].pending})
    BY <1>1, <1>4 DEF RenderFails
  <2> HIDE DEF x
  <2>3. ViewInOrder(x)
    BY <1>1, <1>4, <2>1 DEF ViewInOrder, ViewType, Numbers, None
  <2>4. Accounts(v, x, {view[v].pending}, {})
    <3>1. \A f \in Frames : Count(f \in {view[v].pending}) = Count(view[v].pending = f)
      BY DEF Count
    <3> HIDE DEF Count
    <3> QED BY <1>1, <1>2, <2>1, <3>1 DEF Accounts
  <2> QED BY <1>1, <2>1, <2>2, <2>3, <2>4, GiveStep
<1>5. CASE view[v].kind = "rhi" /\ RenderRgba(v)
  <2> DEFINE x == [view[v] EXCEPT !.pending = None, !.inflight = None, !.image = FALSE]
  <2>1. x \in ViewType /\ x.pending = None /\ x.inflight = None /\ x.kind = view[v].kind
        /\ x.cursor = view[v].cursor /\ x.seq = view[v].seq /\ x.last = view[v].last
        /\ x.stale = view[v].stale
    BY <1>1 DEF ViewType, None
  <2>2. view' = [view EXCEPT ![v] = x] /\ refs' = Released(refs, Given(v))
    BY <1>1, <1>5 DEF RenderRgba, Given
  <2> HIDE DEF x
  <2>3. ViewInOrder(x)
    BY <1>1, <1>5, <2>1 DEF ViewInOrder, ViewType, Numbers, None
  <2>4. Accounts(v, x, Given(v), {})
    <3>1. \A f \in Frames : Count(f \in Given(v)) = Count(view[v].pending = f) + Count(view[v].inflight = f)
      BY GivenCount
    <3> HIDE DEF Count
    <3> QED BY <1>1, <1>2, <2>1, <3>1 DEF Accounts
  <2> QED BY <1>1, <2>1, <2>2, <2>3, <2>4, GiveStep
<1>6. CASE view[v].kind = "sw" /\ PaintSw(v)
  <2> DEFINE x == [view[v] EXCEPT !.image = FALSE]
  <2>1. /\ x \in ViewType
        /\ x.pending = view[v].pending
        /\ x.inflight = view[v].inflight
        /\ x.kind = view[v].kind
        /\ x.cursor = view[v].cursor /\ x.seq = view[v].seq /\ x.last = view[v].last
        /\ x.stale = view[v].stale
    BY <1>1 DEF ViewType
  <2>2. view' = [view EXCEPT ![v] = x] /\ refs' = Released(refs, {})
    BY <1>1, <1>6, NothingGiven DEF PaintSw
  <2> HIDE DEF x
  <2>3. ViewInOrder(x)
    BY <1>1, <2>1 DEF ViewInOrder
  <2>4. Accounts(v, x, {}, {})
    <3> HIDE DEF Count
    <3> QED BY <1>1, <1>2, <2>1 DEF Accounts
  <2> QED BY <1>1, <2>1, <2>2, <2>3, <2>4, GiveStep
<1> QED BY <1>3, <1>4, <1>5, <1>6 DEF Paint

LEMMA ReleaseResourcesStep ==
    ASSUME IInv, NEW v \in Views, ReleaseResources(v)
    PROVE  IInv'
<1> DEFINE x == [view[v] EXCEPT !.pending = None, !.inflight = None]
<1>1. /\ view[v] \in ViewType /\ ViewInOrder(view[v]) /\ view \in [Views -> ViewType]
      /\ rhi \in BOOLEAN /\ swaps \in Nat /\ 0 \in Numbers
      /\ hand = Free /\ UNCHANGED <<queue, seq, hand, rhi, frames, lost, swaps>>
      /\ lost' = Retained(lost, {}) /\ \A f \in Frames : Count(f \in {}) = 0
  BY SurfaceAssumption, NothingGiven DEF IInv, Types, Numbers, ReleaseResources
<1>2. x \in ViewType /\ x.pending = None /\ x.inflight = None /\ x.kind = view[v].kind
        /\ x.cursor = view[v].cursor /\ x.seq = view[v].seq /\ x.last = view[v].last
        /\ x.stale = view[v].stale
  BY <1>1 DEF ViewType, None
<1>3. view' = [view EXCEPT ![v] = x] /\ refs' = Released(refs, Given(v))
  BY <1>1 DEF ReleaseResources, Given
<1> HIDE DEF x
<1>4. ViewInOrder(x)
  BY <1>1, <1>2 DEF ViewInOrder, ViewType, Numbers, None
<1>5. Accounts(v, x, Given(v), {})
  <2>1. \A f \in Frames :
           /\ Count(f \in Given(v)) = Count(view[v].pending = f) + Count(view[v].inflight = f)
           /\ Count(view[v].pending = f) \in Int /\ Count(view[v].inflight = f) \in Int
           /\ Count(None = f) = 0
    BY GivenCount, NoFrame DEF Count
  <2> HIDE DEF Count
  <2> QED BY <1>1, <1>2, <2>1 DEF Accounts
<1> QED BY <1>1, <1>2, <1>3, <1>4, <1>5, GiveStep

\* A new renderer owns nothing and has had nothing.
LEMMA NewRenderer ==
    ASSUME IInv, NEW kind \in {"rhi", "sw", "none"}
    PROVE  /\ Renderer(kind) \in ViewType /\ ViewInOrder(Renderer(kind))
           /\ Renderer(kind).pending = None /\ Renderer(kind).inflight = None
<1>1. 0 \in Numbers /\ Offset \in Nat
  BY SurfaceAssumption DEF IInv, Types, SlotInOrder, Offset, Numbers
<1> QED BY <1>1 DEF Renderer, ViewType, ViewInOrder, None

LEMMA ShowStep ==
    ASSUME IInv, NEW v \in Views, Show(v)
    PROVE  IInv'
<1> DEFINE x == Renderer(IF rhi THEN "rhi" ELSE "sw")
<1>1. /\ x \in ViewType /\ ViewInOrder(x) /\ x.pending = None /\ x.inflight = None
  BY NewRenderer
<1> HIDE DEF x
<1>2. /\ view[v] \in ViewType /\ ViewInOrder(view[v]) /\ view[v].kind = "none"
      /\ view' = [view EXCEPT ![v] = x] /\ hand = Free
      /\ rhi \in BOOLEAN /\ swaps \in Nat
      /\ UNCHANGED <<queue, seq, refs, hand, rhi, frames, lost, swaps>>
      /\ refs' = Released(refs, {}) /\ lost' = Retained(lost, {})
      /\ \A f \in Frames : Count(f \in {}) = 0
  BY NothingGiven DEF IInv, Types, Show, Open, x
<1>3. view[v].pending = None /\ view[v].inflight = None
  BY <1>2 DEF ViewInOrder
<1>4. Accounts(v, x, {}, {})
  BY <1>1, <1>2, <1>3, NoFrame DEF Accounts
<1> QED BY <1>1, <1>2, <1>4, GiveStep

\* The renderer goes with what it owned.
LEMMA DropStep ==
    ASSUME IInv, NEW v \in Views, NEW kind \in {"sw", "none"}, hand = Free,
           view' = [view EXCEPT ![v] = Renderer(kind)], lost' = Dropped(v),
           UNCHANGED <<queue, seq, refs, hand, frames>>, rhi' \in BOOLEAN,
           swaps' \in Nat
    PROVE  IInv'
<1> DEFINE x == Renderer(kind)
<1>1. /\ x \in ViewType /\ ViewInOrder(x) /\ x.pending = None /\ x.inflight = None
  BY NewRenderer
<1>2. view' = [view EXCEPT ![v] = x]
  OBVIOUS
<1> HIDE DEF x
<1>3. /\ refs' = Released(refs, {}) /\ lost' = Retained(lost, Given(v))
      /\ \A f \in Frames : Count(f \in {}) = 0
  BY NothingGiven DEF Dropped, Given
<1>4. Accounts(v, x, {}, Given(v))
  <2>1. \A f \in Frames :
           /\ Count(f \in Given(v)) = Count(view[v].pending = f) + Count(view[v].inflight = f)
           /\ Count(view[v].pending = f) \in Int /\ Count(view[v].inflight = f) \in Int
           /\ Count(None = f) = 0
    BY GivenCount, NoFrame DEF Count
  <2> HIDE DEF Count
  <2> QED BY <1>1, <1>3, <2>1 DEF Accounts
<1> QED BY <1>1, <1>2, <1>3, <1>4, GiveStep

LEMMA CloseStep ==
    ASSUME IInv, NEW v \in Views, Close(v)
    PROVE  IInv'
<1>1. rhi \in BOOLEAN /\ swaps \in Nat
  BY DEF IInv, Types
<1>2. view' = [view EXCEPT ![v] = Renderer("none")]
  BY DEF Close, Closed
<1>3. /\ hand = Free /\ lost' = Dropped(v) /\ UNCHANGED <<queue, seq, refs, hand, frames>>
      /\ rhi' \in BOOLEAN /\ swaps' \in Nat
  BY <1>1 DEF Close
<1> QED BY <1>2, <1>3, DropStep

LEMMA FallbackToSwStep ==
    ASSUME IInv, NEW v \in Views, FallbackToSw(v)
    PROVE  IInv'
<1>1. swaps \in Nat
  BY DEF IInv, Types
<1>2. view' = [view EXCEPT ![v] = Renderer("sw")]
  BY DEF FallbackToSw
<1>3. /\ hand = Free /\ lost' = Dropped(v) /\ UNCHANGED <<queue, seq, refs, hand, frames>>
  BY DEF FallbackToSw
<1>4. rhi' = FALSE /\ swaps' = swaps + 1
  BY DEF FallbackToSw
<1>5. rhi' \in BOOLEAN
  BY <1>4, Zenon
<1>6. swaps' \in Nat
  BY <1>1, <1>4
<1> QED BY <1>2, <1>3, <1>5, <1>6, DropStep

\* Every step preserves the invariant.
LEMMA StepIInv == IInv /\ [Next]_vars => IInv'
<1> SUFFICES ASSUME IInv, [Next]_vars PROVE IInv'
  OBVIOUS
<1>1. ASSUME NEW kind \in {"gpu", "cpu"}, Publish(kind) PROVE IInv'
  BY <1>1, PublishStep DEF Kinds
<1>2. ASSUME NEW v \in Views,
             Take(v) \/ Paint(v) \/ ReleaseResources(v) \/ Show(v) \/ Close(v) \/ FallbackToSw(v)
      PROVE IInv'
  BY <1>2, TakeStep, PaintStep, ReleaseResourcesStep, ShowStep, CloseStep,
     FallbackToSwStep
<1>3. CASE UNCHANGED vars
  <2>1. UNCHANGED <<queue, seq, refs, view, hand, rhi, frames, lost, swaps>>
    BY <1>3 DEF vars
  <2>2. Types' /\ SlotInOrder' /\ (\A v \in Views : ViewInOrder(view[v])') /\ HandInOrder'
    BY <2>1 DEF IInv, Types, SlotInOrder, ViewInOrder, HandInOrder, Offset
  <2>3. HandlesBalance'
    BY <2>1 DEF IInv, HandlesBalance, Carried, Waiting, Drawing
  <2> QED BY <2>2, <2>3 DEF IInv
<1> QED BY <1>1, <1>2, <1>3, ClearStep, PresentStep DEF Next

\* The slot, the views and the counts of the handles stay consistent with each
\* other, in every order of publish, clear, take, present and paint.
THEOREM Invariance == Spec => []IInv
  BY InitIInv, StepIInv, PTL DEF Spec
-----------------------------------------------------------------------------
(***************************************************************************)
(* The promises.                                                           *)
(***************************************************************************)

\* A handle is never returned more often than it was lent: its count is the
\* number of its owners and so at least 0.
LEMMA CountsArePositive == IInv => \A f \in Frames : refs[f] \in Nat
<1> SUFFICES ASSUME IInv, NEW f \in Frames PROVE refs[f] \in Nat
  OBVIOUS
<1>1. Balanced(f) /\ lost[f] \in Nat
  BY BalanceIsBalanced DEF IInv, Types
<1>2. Cardinality(Waiting(f)) \in Nat /\ Cardinality(Drawing(f)) \in Nat
  <2>1. Waiting(f) \subseteq Views /\ Drawing(f) \subseteq Views
    BY DEF Waiting, Drawing
  <2> QED BY <2>1, SurfaceAssumption, FS_Subset, FS_CardinalityType
<1>3. Count(f \in Handles(queue)) \in Nat /\ Count(Carried(f)) \in Nat
  BY DEF Count
<1> QED BY <1>1, <1>2, <1>3 DEF Balanced

LEMMA TypeOKIsKept == IInv => TypeOK
<1> SUFFICES ASSUME IInv PROVE TypeOK
  OBVIOUS
<1>1. refs \in [Frames -> Nat]
  <2>1. refs \in [Frames -> Int] /\ \A f \in Frames : refs[f] \in Nat
    BY CountsArePositive DEF IInv, Types
  <2> QED BY <2>1
<1>2. ASSUME NEW v \in Views
      PROVE  /\ view[v].kind \in {"rhi", "sw", "none"} /\ view[v].cursor \in 0 .. MaxFrames
             /\ {view[v].pending, view[v].inflight} \subseteq Frames \cup {None}
  <2>1. view[v] \in ViewType
    BY DEF IInv, Types
  <2>2. Numbers \subseteq Frames \cup {None}
    BY SurfaceAssumption DEF Numbers, Frames, None
  <2> QED BY <2>1, <2>2 DEF ViewType, Numbers
<1> QED BY <1>1, <1>2 DEF IInv, Types, SlotInOrder, TypeOK, Numbers

\* The slot never grows over its depth, no handle is returned more often than it
\* was lent (LatestSurfaceSlot publish, trim and clear).
THEOREM TypeCorrect == Spec => []TypeOK
  BY Invariance, TypeOKIsKept, PTL

\* The count of a handle is the number of its owners: publish, present, paint,
\* releaseResources and clear return nothing twice and lose nothing else.
THEOREM HandlesAreBalanced == Spec => []HandlesBalance
<1>1. IInv => HandlesBalance
  BY DEF IInv
<1> QED BY <1>1, Invariance, PTL

\* What view v has taken after Take(v).
LEMMA Taken ==
    ASSUME IInv, NEW v \in Views, Take(v)
    PROVE  \E i \in DOMAIN queue : Picked(i, view[v].cursor) /\ view'[v].last = queue[i].frame
<1>1. PICK i \in DOMAIN queue :
         /\ Picked(i, view[v].cursor)
         /\ view' = [view EXCEPT ![v].cursor = queue[i].seq, ![v].last = queue[i].frame]
  BY DEF Take
<1>2. view[v] \in ViewType /\ view \in [Views -> ViewType]
  BY DEF IInv, Types
<1>3. view'[v] = [view[v] EXCEPT !.cursor = queue[i].seq, !.last = queue[i].frame]
  BY <1>1, <1>2
<1>4. view'[v].last = queue[i].frame
  BY <1>2, <1>3 DEF ViewType
<1> QED BY <1>1, <1>4

\* A view that polls the slot takes each frame once, in the order of decoding.
THEOREM TakesAreInOrder == Spec => TakenInOrder
<1>1. IInv /\ [Next]_vars => [\A v \in Views : Take(v) => view'[v].last > view[v].last]_vars
  BY Taken, TakenEntry
<1> QED BY <1>1, Invariance, PTL DEF Spec, TakenInOrder

\* takeNext skips no frame that is in the slot and never lags more than its depth.
THEOREM TakesAreSmoothEver == Spec => TakesAreSmooth
<1> DEFINE Smooth(v) ==
          /\ \A i \in DOMAIN queue : queue[i].frame > view[v].last
                                        => queue[i].frame >= view'[v].last
          /\ view'[v].last > frames - Depth
<1>1. ASSUME IInv, NEW v \in Views, Take(v), ~view[v].stale PROVE Smooth(v)
  BY <1>1, Taken, TakenEntry
<1>2. IInv /\ [Next]_vars => [\A v \in Views : Take(v) /\ ~view[v].stale => Smooth(v)]_vars
  BY <1>1
<1> QED BY <1>2, Invariance, PTL DEF Spec, TakesAreSmooth
=============================================================================
