------------------------------- MODULE Surface -------------------------------
(***************************************************************************)
(* The frames of one channel on their way from the decode thread to the    *)
(* screen: LatestSurfaceSlot (src/infra/video/LatestSurfaceSlot.h), the     *)
(* views that poll it (ui/grid/VideoTileWidget.cpp: the tile in the grid    *)
(* and the full-screen tab) and their renderers (ui/render/                 *)
(* RhiVideoRenderer.cpp, SwVideoRenderer.cpp).                              *)
(*                                                                         *)
(* Frames are numbered as they are decoded.  A "gpu" frame comes with a     *)
(* reference-counted handle and an RGBA copy, a "cpu" frame with RGBA only. *)
(* Three threads meet in the slot, whose operations are atomic (m_mu): the  *)
(* decode thread publishes, the control thread clears, the UI thread takes, *)
(* presents and paints, one view at a time.  The opt-in D3D11 conversion is *)
(* left out.                                                                *)
(***************************************************************************)
EXTENDS Integers, Sequences, FiniteSetsExt, SequencesExt

CONSTANTS Views,     \* widgets that show the channel
          Depth,     \* jitter FIFO depth
          MaxFrames, \* bound on the frames decoded
          MaxSwaps   \* bound on the times a view is closed or falls back

ASSUME SurfaceAssumption ==
    /\ IsFiniteSet(Views)
    /\ Depth \in Nat \ {0} /\ MaxFrames \in Nat /\ MaxSwaps \in Nat

VARIABLES queue,  \* m_q, oldest first: [seq, frame, kind]
          seq,    \* m_seq
          refs,   \* references to the handle of each frame
          view,   \* the views
          hand,   \* what the UI thread holds between latest and present
          rhi,    \* s_rhiProbeState is not 2
          frames, \* ghost: frames published so far
          lost,   \* ghost: references of each frame that nobody can return
          swaps   \* ghost: closes and fallbacks so far

vars == <<queue, seq, refs, view, hand, rhi, frames, lost, swaps>>

Frames == 1 .. MaxFrames
None == 0
Free == [view |-> "none"]

\* A view with a new renderer.  pending and inflight are the NV12 frames to be
\* drawn and being drawn, image says that an RGBA frame is to be drawn.  last
\* (ghost) is the last frame taken since, stale (ghost) that the channel was
\* rebuilt since.
Renderer(kind) == [kind |-> kind, cursor |-> 0, seq |-> 0, pending |-> None, inflight |-> None,
                   image |-> FALSE, last |-> None, stale |-> FALSE]
Closed == Renderer("none")

Open(v) == view[v].kind # "none"

\* The handles of gpu frames a sequence of entries owns.
Handles(entries) == {e.frame : e \in {x \in ToSet(entries) : x.kind = "gpu"}}

\* Reference counts after each handle of a set is released once.
Released(counts, handles) == [f \in Frames |-> IF f \in handles THEN counts[f] - 1 ELSE counts[f]]
Retained(counts, handles) == [f \in Frames |-> IF f \in handles THEN counts[f] + 1 ELSE counts[f]]

-----------------------------------------------------------------------------
\* The decode thread and the control thread.

\* Mutant: one entry too many is kept.
MutEvicted(entries) == IF Len(entries) > Depth + 1 THEN Tail(entries) ELSE entries
\* Mutant: the evicted entry keeps its handle.
MutEvictedHandles(entries) == {}

\* evictLocked: at most one entry is beyond the depth.
Evicted(entries) == IF Len(entries) > Depth THEN Tail(entries) ELSE entries
EvictedHandles(entries) == IF Len(entries) > Depth THEN Handles(<<Head(entries)>>) ELSE {}

\* publishCpu, publishGpu.
Publish(kind) ==
    /\ frames < MaxFrames
    /\ frames' = frames + 1
    /\ seq' = seq + 1
    /\ LET entry == [seq |-> seq', frame |-> frames', kind |-> kind]
           all == Append(queue, entry)
       IN /\ queue' = Evicted(all)
          /\ refs' = Released(Retained(refs, Handles(<<entry>>)), EvictedHandles(all))
    /\ UNCHANGED <<view, hand, rhi, lost, swaps>>

\* destroySource: the source of the channel is gone, its decode thread joined;
\* the slot is emptied and kept.  updateChannel makes a new source for it.
Clear ==
    /\ seq # 0
    /\ refs' = Released(refs, Handles(queue))
    /\ queue' = << >>
    /\ seq' = 0
    /\ view' = [v \in Views |-> [view[v] EXCEPT !.stale = Open(v)]]
    /\ UNCHANGED <<hand, rhi, frames, lost, swaps>>

-----------------------------------------------------------------------------
\* The UI thread: pollFrame.

\* Mutant: a frame is given out again to who has it.
MutNewer(e, cursor) == e.seq >= cursor
Newer(e, cursor) == e.seq > cursor

\* Mutant: the newest frame is given out.
MutPicked(i, cursor) == Newer(queue[i], cursor) /\ i = Len(queue)

\* The first entry, from the oldest, that is new to the view.
Picked(i, cursor) ==
    Newer(queue[i], cursor) /\ \A j \in 1 .. i - 1 : ~Newer(queue[j], cursor)

\* latest: a copy of that entry, with a reference of its own to the handle.
Take(v) ==
    /\ hand = Free /\ Open(v)
    /\ \E i \in DOMAIN queue :
          LET e == queue[i]
          IN /\ Picked(i, view[v].cursor)
             /\ hand' = [view |-> v, seq |-> e.seq, frame |-> e.frame, kind |-> e.kind]
             /\ view' = [view EXCEPT ![v].cursor = e.seq, ![v].last = e.frame]
             /\ refs' = Retained(refs, Handles(<<e>>))
    /\ UNCHANGED <<queue, seq, rhi, frames, lost, swaps>>

Owned(f) == {f} \ {None}

\* SwVideoRenderer::present and the return of the handle by the tile.
PresentSw(v) ==
    /\ view[v].kind = "sw"
    /\ view' = IF hand.seq = view[v].seq THEN view
               ELSE [view EXCEPT ![v].seq = hand.seq, ![v].image = TRUE]
    /\ refs' = Released(refs, Handles(<<hand>>))

\* Mutant: a frame that was never drawn keeps its handle.
MutReplaced(v) == {}

\* A frame that waits to be drawn is replaced by the next one.
Replaced(v) == Owned(view[v].pending)

\* RhiVideoRenderer::present.  The handle is mapped and waits to be drawn.
PresentNv12(v) ==
    /\ hand.kind = "gpu"
    /\ view' = [view EXCEPT ![v].seq = hand.seq, ![v].pending = hand.frame]
    /\ refs' = Released(refs, Replaced(v))

\* There is no handle, no bridge, or the mapping fails: the RGBA copy is used.
PresentRgba(v) ==
    /\ view' = [view EXCEPT ![v].seq = hand.seq, ![v].image = TRUE]
    /\ refs' = Released(refs, Handles(<<hand>>))

\* A frame the renderer has had is ignored, its handle too.
PresentRhi(v) ==
    /\ view[v].kind = "rhi"
    /\ IF hand.seq = view[v].seq THEN UNCHANGED <<view, refs>>
                                ELSE PresentNv12(v) \/ PresentRgba(v)

Present ==
    /\ hand # Free
    /\ PresentSw(hand.view) \/ PresentRhi(hand.view)
    /\ hand' = Free
    /\ UNCHANGED <<queue, seq, rhi, frames, lost, swaps>>

-----------------------------------------------------------------------------
\* The UI thread: painting.

\* render with a waiting NV12 frame: it is in flight now, the one before is
\* returned; or it cannot be wrapped and is returned itself.
RenderNv12(v) ==
    /\ view[v].pending # None
    /\ view' = [view EXCEPT ![v].inflight = view[v].pending, ![v].pending = None]
    /\ refs' = Released(refs, Owned(view[v].inflight))

RenderFails(v) ==
    /\ view[v].pending # None /\ ~view[v].image
    /\ view' = [view EXCEPT ![v].pending = None]
    /\ refs' = Released(refs, {view[v].pending})

\* render of the RGBA frame: alone, or after the NV12 frame could not be
\* wrapped.  The frame in flight is returned.
RenderRgba(v) ==
    /\ view[v].image
    /\ view' = [view EXCEPT ![v].pending = None, ![v].inflight = None, ![v].image = FALSE]
    /\ refs' = Released(refs, Owned(view[v].pending) \cup Owned(view[v].inflight))

PaintSw(v) ==
    /\ view[v].image
    /\ view' = [view EXCEPT ![v].image = FALSE]
    /\ refs' = refs

Paint(v) ==
    /\ hand = Free
    /\ \/ view[v].kind = "rhi" /\ (RenderNv12(v) \/ RenderFails(v) \/ RenderRgba(v))
       \/ view[v].kind = "sw" /\ PaintSw(v)
    /\ UNCHANGED <<queue, seq, hand, rhi, frames, lost, swaps>>

\* releaseResources: the graphics device of a view is lost or replaced.
ReleaseResources(v) ==
    /\ hand = Free /\ view[v].kind = "rhi"
    /\ view[v].pending # None \/ view[v].inflight # None
    /\ view' = [view EXCEPT ![v].pending = None, ![v].inflight = None]
    /\ refs' = Released(refs, Owned(view[v].pending) \cup Owned(view[v].inflight))
    /\ UNCHANGED <<queue, seq, hand, rhi, frames, lost, swaps>>

-----------------------------------------------------------------------------
\* The views.

\* A tile or a full-screen tab is opened.
Show(v) ==
    /\ hand = Free /\ ~Open(v)
    /\ view' = [view EXCEPT ![v] = Renderer(IF rhi THEN "rhi" ELSE "sw")]
    /\ UNCHANGED <<queue, seq, refs, hand, rhi, frames, lost, swaps>>

\* The destructor of RhiVideoRenderer returns nothing.
Dropped(v) == Retained(lost, Owned(view[v].pending) \cup Owned(view[v].inflight))

Close(v) ==
    /\ hand = Free /\ Open(v) /\ swaps < MaxSwaps
    /\ view' = [view EXCEPT ![v] = Closed]
    /\ lost' = Dropped(v)
    /\ swaps' = swaps + 1
    /\ UNCHANGED <<queue, seq, refs, hand, rhi, frames>>

\* fallbackToSw: the renderer is replaced and the slot is read from the start.
FallbackToSw(v) ==
    /\ hand = Free /\ view[v].kind = "rhi" /\ swaps < MaxSwaps
    /\ view' = [view EXCEPT ![v] = Renderer("sw")]
    /\ rhi' = FALSE
    /\ lost' = Dropped(v)
    /\ swaps' = swaps + 1
    /\ UNCHANGED <<queue, seq, refs, hand, frames>>

-----------------------------------------------------------------------------
Init == /\ queue = << >>
        /\ seq = 0
        /\ refs = [f \in Frames |-> 0]
        /\ view = [v \in Views |-> Closed]
        /\ hand = Free
        /\ rhi = TRUE
        /\ frames = 0
        /\ lost = [f \in Frames |-> 0]
        /\ swaps = 0

Next == \/ \E kind \in {"gpu", "cpu"} : Publish(kind)
        \/ Clear
        \/ Present
        \/ \E v \in Views : \/ Take(v) \/ Paint(v) \/ ReleaseResources(v)
                            \/ Show(v) \/ Close(v) \/ FallbackToSw(v)

Spec == Init /\ [][Next]_vars
-----------------------------------------------------------------------------
\* What the frames are promised.

EntryType == [seq : 1 .. MaxFrames, frame : Frames, kind : {"gpu", "cpu"}]

\* The members have their types; the slot never holds more than its depth, so
\* a channel nobody looks at costs no more than that.
TypeOK ==
    /\ queue \in Seq(EntryType) /\ Len(queue) <= Depth
    /\ seq \in 0 .. MaxFrames /\ frames \in 0 .. MaxFrames
    /\ refs \in [Frames -> Nat] /\ lost \in [Frames -> Nat]
    /\ rhi \in BOOLEAN
    /\ \A v \in Views : /\ view[v].kind \in {"rhi", "sw", "none"}
                        /\ view[v].cursor \in 0 .. MaxFrames
                        /\ {view[v].pending, view[v].inflight} \subseteq Frames \cup {None}

Waiting(f) == {v \in Views : view[v].pending = f}
Drawing(f) == {v \in Views : view[v].inflight = f}
Carried(f) == IF hand # Free THEN f \in Handles(<<hand>>) ELSE FALSE

\* The reference count of every handle is the number of its owners: the slot,
\* the UI thread on its way to present, the views that wait with it or draw
\* it, and those that were destroyed with it.  Nothing is returned twice and
\* nothing else is lost, whatever the threads interleave (the handle contract
\* of LatestSurfaceSlot.h:28-34).
HandlesBalance ==
    \A f \in Frames :
        refs[f] = (IF f \in Handles(queue) THEN 1 ELSE 0) + (IF Carried(f) THEN 1 ELSE 0)
                  + Cardinality(Waiting(f)) + Cardinality(Drawing(f)) + lost[f]

\* A view takes every frame once and in the order of decoding, with the slot
\* cleared and filled again, and other views reading, between its polls.
TakenInOrder == [][\A v \in Views : Take(v) => view'[v].last > view[v].last]_vars

\* A view skips no frame that is still in the slot, so that a burst is shown
\* one frame per poll, and never lags more than the depth behind the decoder
\* (LatestSurfaceSlot.h:15-22); until the channel is rebuilt under it.
TakesAreSmooth ==
    [][\A v \in Views : Take(v) /\ ~view[v].stale =>
          /\ \A i \in DOMAIN queue : queue[i].frame > view[v].last
                                        => queue[i].frame >= view'[v].last
          /\ view'[v].last > frames - Depth]_vars
=============================================================================
