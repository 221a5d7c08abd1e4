----------------------------- MODULE PacketBuffer -----------------------------
(***************************************************************************)
(* The ring buffer that lends its memory to data packets: class            *)
(* PacketBufferImpl of core/opendaq/utility.  createPacket cuts the next   *)
(* piece off at writePos; when a packet is destroyed, on any thread and in *)
(* any order, its deleter calls Read, which remembers the piece in the     *)
(* heap oosPackets until readPos reaches it.  Both hold the mutex for      *)
(* their whole body; resize releases it while it waits for an empty        *)
(* buffer.  Addresses are offsets into the buffer.                         *)
(***************************************************************************)
EXTENDS Integers, Sequences, FiniteSets

CONSTANTS
    InitialSize,     \* sizeInBytes of the builder
    NewSizes,        \* sizes resize is called with
    PacketSizes,     \* sampleCount * rawSampleSize of the packets created
    Resizers,        \* threads that call resize
    MaxLive          \* bound: packets alive at a time

ASSUME PacketBufferAssumption ==
    /\ InitialSize \in Nat /\ NewSizes \subseteq Nat \ {0} /\ PacketSizes \subseteq Nat
    /\ MaxLive \in Nat

VARIABLES
    sizeInBytes, readPos, writePos, isFull, underReset,
    oosPackets,      \* the heap: released pieces not yet reached, ascending
    live,            \* the packets that exist, in order of creation
    resizing,        \* size each thread inside resize asked for, 0 if none
    inOrder          \* history: every packet was destroyed before all younger ones

ring == <<sizeInBytes, readPos, writePos, isFull, oosPackets>>
bufferVars == <<ring, underReset, live, resizing, inOrder>>

Piece(start, n) == [pos |-> start, size |-> n]

(* std::pair order: by address, then by size.                              *)
Below(p, q) == p.pos < q.pos \/ (p.pos = q.pos /\ p.size <= q.size)
Push(heap, p) ==
    LET k == Cardinality({i \in DOMAIN heap : Below(heap[i], p)})
    IN SubSeq(heap, 1, k) \o <<p>> \o SubSeq(heap, k + 1, Len(heap))

(* The loop of CleanOosPackets pops while the top piece starts at readPos, *)
(* which has moved to the end of the piece popped before.                  *)
Reached(heap, k) ==
    /\ heap[1].pos = readPos
    /\ \A i \in 1 .. k - 1 : heap[i + 1].pos = heap[i].pos + heap[i].size
Popped(heap) == Cardinality({k \in DOMAIN heap : Reached(heap, k)})
CleanOosPackets(heap, full) ==
    LET k == Popped(heap)
        read == IF k = 0 THEN readPos ELSE heap[k].pos + heap[k].size
    IN [readPos |-> IF read >= sizeInBytes THEN read - sizeInBytes ELSE read,
        heap |-> SubSeq(heap, k + 1, Len(heap)),
        full |-> full /\ k = 0]

(* Fault: the lent part between writePos and readPos is ignored.           *)
AvailableToTheEnd == sizeInBytes - writePos

(* Room between writePos and readPos, or up to the end of the buffer.      *)
Available == IF writePos < readPos THEN readPos - writePos ELSE sizeInBytes - writePos
RejectedAsFull == isFull /\ writePos = readPos

(* Write, enough room at writePos.                                         *)
WriteHere(n) ==
    /\ ~RejectedAsFull /\ n <= Available
    /\ LET w == IF writePos + n = sizeInBytes THEN 0 ELSE writePos + n
       IN writePos' = w /\ isFull' = (isFull \/ w = readPos)
    /\ live' = Append(live, Piece(writePos, n))
    /\ UNCHANGED <<sizeInBytes, readPos, oosPackets>>

(* Fault: the rest up to the end of the buffer is not released.            *)
WriteAtBeginningNoDummy(n) ==
    /\ ~RejectedAsFull /\ n > Available
    /\ writePos >= readPos /\ n <= readPos
    /\ writePos' = n
    /\ isFull' = (readPos = n)
    /\ live' = Append(live, Piece(0, n))
    /\ UNCHANGED <<sizeInBytes, readPos, oosPackets>>

(* Write, not enough room up to the end but enough at the beginning: the   *)
(* rest becomes a dummy piece that is released at once.                    *)
WriteAtBeginning(n) ==
    /\ ~RejectedAsFull /\ n > Available
    /\ writePos >= readPos /\ n <= readPos
    /\ LET c == CleanOosPackets(Push(oosPackets, Piece(writePos, Available)), isFull)
       IN /\ readPos' = c.readPos
          /\ oosPackets' = c.heap
          /\ isFull' = (c.full \/ c.readPos = n)
    /\ writePos' = n
    /\ live' = Append(live, Piece(0, n))
    /\ UNCHANGED sizeInBytes

Write(n) == WriteHere(n) \/ WriteAtBeginning(n)

(* createPacket; it fails without effect while a resize is under way and   *)
(* when Write finds no room.                                               *)
CreatePacket(n) ==
    /\ ~underReset /\ Len(live) < MaxLive
    /\ Write(n)
    /\ UNCHANGED <<underReset, resizing, inOrder>>

(* The deleter of the i-th packet: Read.  A piece below readPos belongs to *)
(* the next lap and is remembered behind the end of the buffer.            *)
Release(i) ==
    /\ LET p == live[i]
           q == IF p.pos < readPos THEN Piece(p.pos + sizeInBytes, p.size) ELSE p
           c == CleanOosPackets(Push(oosPackets, q), isFull)
       IN readPos' = c.readPos /\ oosPackets' = c.heap /\ isFull' = c.full
    /\ live' = SubSeq(live, 1, i - 1) \o SubSeq(live, i + 1, Len(live))
    /\ inOrder' = (inOrder /\ i = 1)
    /\ UNCHANGED <<sizeInBytes, writePos, underReset, resizing>>

(* The predicate resize waits for.                                         *)
Empty == readPos = writePos /\ ~isFull

(* resize up to the wait, which gives the mutex up: the buffer is in use.  *)
ResizeBegin(r, n) ==
    /\ resizing[r] = 0 /\ ~Empty
    /\ underReset' = TRUE
    /\ resizing' = [resizing EXCEPT ![r] = n]
    /\ UNCHANGED <<ring, live, inOrder>>

(* Fault: the wait is for the positions a new buffer has.                  *)
ReallocateAtStart(n) ==
    /\ readPos = 0 /\ writePos = 0 /\ ~isFull
    /\ sizeInBytes' = n
    /\ readPos' = 0 /\ writePos' = 0
    /\ underReset' = FALSE
    /\ UNCHANGED <<isFull, oosPackets, live, inOrder>>

(* The rest of resize, once the wait's predicate holds: a vector of the    *)
(* new size, and packets may be created again.                             *)
Reallocate(n) ==
    /\ Empty
    /\ sizeInBytes' = n
    /\ readPos' = 0 /\ writePos' = 0
    /\ underReset' = FALSE
    /\ UNCHANGED <<isFull, oosPackets, live, inOrder>>

ResizeEnd(r) ==
    /\ resizing[r] # 0
    /\ Reallocate(resizing[r])
    /\ resizing' = [resizing EXCEPT ![r] = 0]

(* resize of an empty buffer does not wait.                                *)
ResizeAtOnce(r, n) == resizing[r] = 0 /\ Reallocate(n) /\ UNCHANGED resizing

(* Fault: the room before readPos is not considered.                       *)
MaxAvailableAtEnd ==
    IF RejectedAsFull THEN 0
    ELSE IF writePos < readPos THEN readPos - writePos ELSE sizeInBytes - writePos

(* For samples of one byte.                                                *)
getMaxAvailableContinousSampleCount ==
    IF RejectedAsFull THEN 0
    ELSE IF writePos < readPos THEN readPos - writePos
    ELSE IF readPos <= sizeInBytes - writePos THEN sizeInBytes - writePos ELSE readPos

BufferInit ==
    /\ sizeInBytes = InitialSize
    /\ readPos = 0 /\ writePos = 0 /\ isFull = FALSE /\ underReset = FALSE
    /\ oosPackets = <<>> /\ live = <<>>
    /\ resizing = [r \in Resizers |-> 0]
    /\ inOrder = TRUE

BufferNext ==
    \/ \E n \in PacketSizes : CreatePacket(n)
    \/ \E i \in DOMAIN live : Release(i)
    \/ \E r \in Resizers, n \in NewSizes : ResizeBegin(r, n) \/ ResizeAtOnce(r, n)
    \/ \E r \in Resizers : ResizeEnd(r)

(* Packets do not live forever, and a resize whose predicate holds wakes   *)
(* up: Read notifies after every release.                                  *)
BufferFairness ==
    /\ WF_bufferVars(\E i \in DOMAIN live : Release(i))
    /\ \A r \in Resizers : WF_bufferVars(ResizeEnd(r))
BufferSafe == BufferInit /\ [][BufferNext]_bufferVars
BufferSpec == BufferSafe /\ BufferFairness

--------------------------------------------------------------------------------
Pieces == [pos : Nat, size : Nat]
(* Every variable keeps its type.                                          *)
BufferTypeOK ==
    /\ sizeInBytes \in Nat
    /\ readPos \in 0 .. sizeInBytes /\ writePos \in 0 .. sizeInBytes
    /\ isFull \in BOOLEAN /\ underReset \in BOOLEAN
    /\ oosPackets \in Seq(Pieces) /\ live \in Seq(Pieces)
    /\ resizing \in [Resizers -> Nat]
    /\ inOrder \in BOOLEAN

Bytes(p) == p.pos .. (p.pos + p.size - 1)

(* Memory is lent to one packet at a time and never outside the buffer     *)
(* ("Case when enough space is available on the right side of WritePos"),  *)
(* whatever the order in which packets are destroyed, across wrap-arounds  *)
(* and resizes; the positions keep their types.                            *)
NoOverlap ==
    /\ BufferTypeOK
    /\ \A i \in DOMAIN live : Bytes(live[i]) \subseteq 0 .. (sizeInBytes - 1)
    /\ \A i, j \in DOMAIN live : i # j => Bytes(live[i]) \cap Bytes(live[j]) = {}

(* resize goes on only when no packet uses the memory and no address of    *)
(* the old buffer is left in the heap, whatever the order of destruction;  *)
(* and "the buffer should be empty" once every packet is destroyed: as     *)
(* long as packets are destroyed oldest first, all memory can be lent again. *)
EmptyExactlyWhenIdle ==
    /\ Empty => live = <<>> /\ oosPackets = <<>>
    /\ inOrder /\ live = <<>> => Empty

(* getMaxAvailableContinousSampleCount is "the amount of samples that can  *)
(* be fitted into the space available": a packet is created exactly if it  *)
(* is not larger.                                                          *)
MaxAvailableFits ==
    \A n \in 1 .. sizeInBytes : n <= getMaxAvailableContinousSampleCount <=> ENABLED Write(n)

(* resize returns, as long as packets are destroyed oldest first.          *)
ResizeReturns == \A r \in Resizers : (resizing[r] # 0) ~> (resizing[r] = 0 \/ ~inOrder)
================================================================================
