-------------------------- MODULE CudaBlockProofs --------------------------
(***************************************************************************)
(* Proofs about CudaBlock, for every number of warps and lanes and every   *)
(* size of the operands.                                                   *)
(*                                                                         *)
(* The argument is about sections: what a thread does from one barrier to  *)
(* the next.  All threads are in the same section, which is given by what  *)
(* they had in common when they entered it, and whether a section ends at  *)
(* a barrier, and at which one, depends on that alone.                     *)
(***************************************************************************)
EXTENDS CudaBlock, TLAPS

-----------------------------------------------------------------------------
(* Sections. *)

\* A section is entered at a label, with the position, key of the tile,
\* reduction and return label that all threads share.
Returns == {"rmsnorm_write", "softmax_sum", "softmax_divide", "decode_update", "sdpa_keep"}
Entries == Returns \cup {"rmsnorm", "softmax", "get_partial", "get_result", "sgemm", "sgemm_tile",
                         "q8", "q8_sum", "sdpa", "sdpa_load", "sdpa_combine"}
Position == Nat \cup {-1}
Section == [label : Entries, pos : Position, t : Int, op : {"sum", "max"}, ret : Returns]

\* The section that ends in a reduction, by its label, with what it reduces by
\* and where it returns.
Reductions == {<<"rmsnorm", "sum", "rmsnorm_write">>,
               <<"softmax", "max", "softmax_sum">>, <<"softmax_sum", "sum", "softmax_divide">>,
               <<"decode_update", "sum", "decode_update">>, <<"sdpa_keep", "sum", "sdpa_keep">>}

\* A thread with locals r is at label l, or waits there (w), in its reduction.
Reducing(label, l, w, r) == /\ <<label, r.op, r.ret>> \in Reductions
                            /\ \/ l \in {"reduce", "put_partial"} /\ ~w
                               \/ l = "get_partial" /\ w

\* rmsnorm and softmax: up to a reduction, or from the last one to the end.
RowSection(e, l, w, r) ==
    /\ r.pos = e.pos /\ r.t = e.t
    /\ \/ /\ e.label \in {"rmsnorm", "softmax", "softmax_sum"}
          /\ (l = e.label /\ ~w) \/ Reducing(e.label, l, w, r)
       \/ /\ e.label \in {"rmsnorm_write", "softmax_divide"}
          /\ l \in {e.label, "exit"} /\ ~w

\* Inside block_reduce: up to the barrier before the result is read, and from
\* there to the barrier that the reduction returns at.
ReduceSection(e, l, w, r) ==
    /\ r.pos = e.pos /\ r.t = e.t /\ r.op = e.op /\ r.ret = e.ret
    /\ \/ /\ e.label = "get_partial"
          /\ \/ l \in {"get_partial", "reduce_partials", "put_result"} /\ ~w
             \/ l = "get_result" /\ w
       \/ /\ e.label = "get_result"
          /\ (l = "get_result" /\ ~w) \/ (l = e.ret /\ w)

\* sgemm loads a tile and multiplies it; the Q8_0 kernel sums once.
MatrixSection(e, l, w, r) ==
    \/ /\ e.label = "sgemm" /\ r.pos = e.pos
       /\ \/ l = "sgemm" /\ ~w
          \/ l = "sgemm_tile" /\ w /\ e.pos < kernel.K
          \/ l = "exit" /\ ~w /\ e.pos >= kernel.K
    \/ /\ e.label = "sgemm_tile"
       /\ \/ l = "sgemm_tile" /\ ~w /\ r.pos = e.pos
          \/ l = "sgemm" /\ w /\ r.pos = e.pos + kernel.tile
    \/ e.label = "q8" /\ ((l = "q8" /\ ~w) \/ (l = "q8_sum" /\ w))
    \/ e.label = "q8_sum" /\ l \in {"q8_sum", "exit"} /\ ~w

\* From the update for a position over the positions that have no block to
\* the next that has one.  The first section begins at position -1.
DecodeSection(e, l, w, r) ==
    /\ e.label = "decode_update" /\ r.t = e.t
    /\ \/ l = "decode_update" /\ ~w /\ r.pos = e.pos
       \/ /\ r.pos > e.pos
          /\ \A p \in (e.pos + 1)..(r.pos - 1) : missing(p)
          /\ \/ l = "decode" /\ ~w
             \/ r.pos < seq_len /\ ~missing(r.pos) /\ Reducing(e.label, l, w, r)
             \/ r.pos >= seq_len /\ l = "exit" /\ ~w

\* How many keys the tile that begins at a position has.
KeysFrom(pos) == Min({kernel.tile, valid_keys - pos})

\* Attention loads the query, then loads, scores and combines each tile of
\* keys; a score is a section, since each is a reduction.
SdpaSection(e, l, w, r) ==
    \/ /\ e.label = "sdpa" /\ r.pos = e.pos
       /\ (l = "sdpa" /\ ~w) \/ (l = "sdpa_load" /\ w)
    \/ /\ e.label = "sdpa_load" /\ r.pos = e.pos
       /\ \/ l = "sdpa_load" /\ ~w
          \/ l = "sdpa_score" /\ w /\ r.t = 0 /\ e.pos < valid_keys
          \/ l = "exit" /\ ~w /\ e.pos >= valid_keys
    \/ /\ e.label = "sdpa_keep" /\ r.pos = e.pos
       /\ \/ l = "sdpa_keep" /\ ~w /\ r.t = e.t
          \/ /\ r.t = e.t + 1
             /\ \/ l = "sdpa_score" /\ ~w
                \/ r.t < KeysFrom(e.pos) /\ Reducing(e.label, l, w, r)
                \/ r.t >= KeysFrom(e.pos) /\ l = "sdpa_combine" /\ w
    \/ /\ e.label = "sdpa_combine"
       /\ \/ l = "sdpa_combine" /\ ~w /\ r.pos = e.pos
          \/ l = "sdpa_load" /\ w /\ r.pos = e.pos + kernel.tile

\* A thread with locals r that is at label l, or waits there, is in section e.
Fits(e, l, w, r) ==
    /\ r.pos \in Position /\ r.t \in Int
    /\ \/ ReduceSection(e, l, w, r)
       \/ RowSection(e, l, w, r)
       \/ MatrixSection(e, l, w, r)
       \/ DecodeSection(e, l, w, r)
       \/ SdpaSection(e, l, w, r)

-----------------------------------------------------------------------------
(* Shared slots in a section. *)

\* The slots that a section only reads, by their first component; the others
\* have an owner.
ReadOnly == {<<"get_result", "sum">>, <<"get_result", "max">>,
             <<"sdpa_keep", "q_s">>, <<"sdpa_keep", "k_s">>,
             <<"sdpa_combine", "scores">>, <<"sdpa_combine", "v_s">>,
             <<"sgemm_tile", "As">>, <<"sgemm_tile", "Bs">>, <<"q8_sum", "partials">>}

\* The one thread t that touches a slot of the others.
Owns(label, t, s) ==
    \/ s[1] \in {"sum", "max"} /\ t = IF label = "get_partial" THEN s[2] ELSE s[2] * kernel.lanes
    \/ s[1] \in {"q_s", "k_s", "v_s"} /\ t = s[2] % BLOCK
    \/ s[1] \in {"As", "Bs"} /\ t = s[2] * kernel.tile + s[3]
    \/ s[1] = "partials" /\ t = s[2] * kernel.lanes + s[3]
    \/ s[1] = "scores" /\ t = 0

\* Whether thread t may read or write slot s in a section.
Allowed(label, kind, s, t) == IF <<label, s[1]>> \in ReadOnly THEN kind = "read" ELSE Owns(label, t, s)

Access == {"slot", "kind", "thread", "settled"}

\* What has been accessed since the last barrier is allowed.
AccessesFit(label) ==
    \A a \in accesses : DOMAIN a = Access /\ Allowed(label, a.kind, a.slot, a.thread)

\* The kernel that the label of a section, or its reduction's return, is of.
Labels == {<<"rmsnorm", "rmsnorm">>, <<"rmsnorm", "rmsnorm_write">>,
           <<"softmax", "softmax">>, <<"softmax", "softmax_sum">>, <<"softmax", "softmax_divide">>,
           <<"sgemm", "sgemm">>, <<"sgemm", "sgemm_tile">>, <<"q8", "q8">>, <<"q8", "q8_sum">>,
           <<"decode", "decode_update">>, <<"sdpa", "sdpa">>, <<"sdpa", "sdpa_load">>,
           <<"sdpa", "sdpa_keep">>, <<"sdpa", "sdpa_combine">>}

InKernel(e) ==
    <<kernel.name, IF e.label \in {"get_partial", "get_result"} THEN e.ret ELSE e.label>> \in Labels

\* The threads are all in section e, and have touched nothing else.
InSection(e) == /\ InKernel(e)
                /\ \A t \in Threads : Fits(e, pc[t], t \in waiting, reg[t])
                /\ AccessesFit(e.label)

\* All threads are in one section, and its accesses are those it allows.
BlockInv == /\ kernel \in Launches
            /\ DOMAIN pc = Threads /\ DOMAIN reg = Threads /\ waiting \subseteq Threads
            /\ \A t \in Threads : DOMAIN reg[t] = DOMAIN Locals
            /\ launchable(kernel)
            /\ \E e \in Section : InSection(e)

-----------------------------------------------------------------------------
(* Threads, warps and lanes. *)

\* The shape of a block.
LEMMA BlockShape ==
  ASSUME kernel \in Launches
  PROVE  /\ kernel.lanes \in Nat \ {0} /\ kernel.warps \in Nat \ {0} /\ kernel.warps <= kernel.lanes
         /\ BLOCK \in Nat \ {0}
         /\ 0 \in Threads /\ Threads \subseteq Nat
<1>1. kernel.lanes \in Nat \ {0} /\ kernel.warps \in Nat \ {0} /\ kernel.warps <= kernel.lanes
  BY LaunchAssumption
<1>2. PICK w \in Nat \ {0}, n \in Nat \ {0} : w = kernel.warps /\ n = kernel.lanes
  BY <1>1
<1>3. w * n \in Nat \ {0}
  OBVIOUS
<1> QED BY <1>1, <1>2, <1>3 DEF BLOCK, Threads

\* A number is its quotient times the divisor plus the rest.
LEMMA QuotientAndRest ==
  ASSUME NEW n \in Nat, NEW d \in Nat \ {0}
  PROVE  /\ n \div d \in Nat /\ n % d \in 0..(d - 1)
         /\ n = (n \div d) * d + (n % d)
         /\ n < d => n % d = n
OBVIOUS

\* The warp and the lane of a thread.
LEMMA WarpAndLane ==
  ASSUME kernel \in Launches, NEW t \in Threads
  PROVE  /\ warp(t) \in Nat /\ lane(t) \in Nat
         /\ t = warp(t) * kernel.lanes + lane(t)
         /\ t < kernel.warps => lane(t) = t
<1>1. PICK n \in Nat, d \in Nat \ {0}, w \in Nat : n = t /\ d = kernel.lanes /\ w = kernel.warps /\ w <= d
  <2>1. t \in Nat /\ kernel.lanes \in Nat \ {0} /\ kernel.warps \in Nat /\ kernel.warps <= kernel.lanes
    BY BlockShape
  <2> QED BY <2>1
<1>2. n \div d \in Nat /\ n % d \in Nat /\ n = (n \div d) * d + (n % d) /\ (n < w => n % d = n)
  <2>1. n \div d \in Nat /\ n % d \in 0..(d - 1) /\ n = (n \div d) * d + (n % d) /\ (n < d => n % d = n)
    BY QuotientAndRest
  <2>2. n < w => n < d
    BY <1>1
  <2> QED BY <2>1, <2>2
<1> QED BY <1>1, <1>2 DEF warp, lane

-----------------------------------------------------------------------------
(* What a step of one thread has to show. *)

\* Whether a thread fits a section does not change while the kernel does not.
LEMMA FitsStays ==
  ASSUME NEW e, NEW t, kernel' = kernel, Fits(e, pc'[t], t \in waiting', reg'[t])
  PROVE  Fits(e, pc[t], t \in waiting, reg[t])'
BY DEF Fits, ReduceSection, RowSection, MatrixSection, DecodeSection, SdpaSection, Reducing,
       KeysFrom, valid_keys, missing, seq_len

\* Nor does whether a section allows an access.
LEMMA AllowedStays ==
  ASSUME NEW label, NEW kind, NEW s, NEW t, kernel' = kernel, Allowed(label, kind, s, t)
  PROVE  Allowed(label, kind, s, t)'
BY DEF Allowed, Owns, BLOCK

\* A step of thread t keeps the section of all if t stays in it and touches
\* only the slots that the section allows it.
LEMMA StepStays ==
  ASSUME BlockInv, NEW e \in Section, InSection(e), NEW t \in Threads, kernel' = kernel,
         DOMAIN pc' = DOMAIN pc, DOMAIN reg' = DOMAIN reg, waiting' \in {waiting, waiting \cup {t}},
         \A u \in Threads \ {t} : pc'[u] = pc[u] /\ reg'[u] = reg[u],
         DOMAIN reg'[t] = DOMAIN Locals, Fits(e, pc'[t], t \in waiting', reg'[t]),
         \A a \in accesses' : \/ a \in accesses
                              \/ DOMAIN a = Access /\ Allowed(e.label, a.kind, a.slot, a.thread)
  PROVE  BlockInv'
<1>1. Threads' = Threads
  BY DEF Threads, BLOCK
<1>2. ASSUME NEW u \in Threads PROVE Fits(e, pc[u], u \in waiting, reg[u])'
  <2>1. Fits(e, pc'[u], u \in waiting', reg'[u])
    <3>1. CASE u = t
      BY <3>1
    <3>2. CASE u # t
      <4>1. Fits(e, pc[u], u \in waiting, reg[u])
        BY DEF InSection
      <4>2. pc'[u] = pc[u] /\ reg'[u] = reg[u] /\ (u \in waiting') = (u \in waiting)
        BY <3>2
      <4> QED BY <4>1, <4>2
    <3> QED BY <3>1, <3>2
  <2> QED BY <2>1, FitsStays
<1>3. AccessesFit(e.label)'
  <2>1. ASSUME NEW a \in accesses'
        PROVE  DOMAIN a = Access /\ Allowed(e.label, a.kind, a.slot, a.thread)
    BY <2>1 DEF InSection, AccessesFit
  <2>2. ASSUME NEW a \in accesses'
        PROVE  DOMAIN a = Access /\ Allowed(e.label, a.kind, a.slot, a.thread)'
    <3>1. PICK kind, s, u : kind = a.kind /\ s = a.slot /\ u = a.thread
      OBVIOUS
    <3> QED BY <2>1, <3>1, AllowedStays
  <2> QED BY <2>2 DEF AccessesFit
<1>4. InSection(e)'
  BY <1>1, <1>2, <1>3 DEF InSection, InKernel
<1> QED BY <1>1, <1>4 DEF BlockInv

\* A thread at a label, in the section of all.
LEMMA FitsAt ==
  ASSUME NEW e, InSection(e), NEW t \in Threads, NEW k, at(t, k)
  PROVE  Fits(e, k, FALSE, reg[t])
<1>1. pc[t] = k /\ (t \in waiting) = FALSE
  BY DEF at
<1> QED BY <1>1 DEF InSection

\* StepStays for a step that gives t the label l and the locals r.
LEMMA TouchStays ==
  ASSUME BlockInv, NEW e \in Section, InSection(e), NEW t \in Threads,
         NEW l, NEW r, DOMAIN r = DOMAIN Locals, Fits(e, l, t \in waiting', r),
         kernel' = kernel, waiting' \in {waiting, waiting \cup {t}},
         pc' = [pc EXCEPT ![t] = l], reg' = [reg EXCEPT ![t] = r],
         \A a \in accesses' : \/ a \in accesses
                              \/ DOMAIN a = Access /\ Allowed(e.label, a.kind, a.slot, a.thread)
  PROVE  BlockInv'
<1>1. DOMAIN pc = Threads /\ DOMAIN reg = Threads
  BY DEF BlockInv
<1>2. /\ pc'[t] = l /\ reg'[t] = r
      /\ DOMAIN pc' = DOMAIN pc /\ DOMAIN reg' = DOMAIN reg
      /\ \A u \in Threads \ {t} : pc'[u] = pc[u] /\ reg'[u] = reg[u]
  BY <1>1
<1>3. Fits(e, pc'[t], t \in waiting', reg'[t]) /\ DOMAIN reg'[t] = DOMAIN Locals
  BY <1>2
<1> QED BY <1>2, <1>3, StepStays

-----------------------------------------------------------------------------
(* What the invariant is for. *)

\* A slot that is not only read has one owner.
LEMMA OneOwner ==
  ASSUME NEW label, NEW s, NEW t, NEW u, Owns(label, t, s), Owns(label, u, s)
  PROVE  t = u
BY DEF Owns

\* The loops of the kernels end at integers.
LEMMA SizesType ==
  ASSUME kernel \in Launches
  PROVE  /\ kernel.name = "sgemm" => kernel.K \in Int /\ kernel.tile \in Nat
         /\ kernel.name = "decode" => seq_len \in Int
         /\ kernel.name = "sdpa" => /\ valid_keys \in Int /\ kernel.tile \in Nat
                                   /\ \A pos \in Int : KeysFrom(pos) \in Int
<1>1. kernel.name = "sgemm" => kernel.K \in Int /\ kernel.tile \in Nat
  BY LaunchAssumption
<1>2. ASSUME kernel.name = "decode" PROVE seq_len \in Int
  <2>1. kernel.len \in Int /\ kernel.block_size \in Int /\ Len(kernel.table) \in Int
    BY <1>2, LaunchAssumption
  <2>2. PICK a \in Int, b \in Int : a = Len(kernel.table) /\ b = kernel.block_size
    BY <2>1
  <2>3. a * b \in Int
    OBVIOUS
  <2> QED BY <2>1, <2>2, <2>3 DEF seq_len
<1>3. ASSUME kernel.name = "sdpa"
      PROVE  /\ valid_keys \in Int /\ kernel.tile \in Nat
             /\ \A pos \in Int : KeysFrom(pos) \in Int
  <2>1. kernel.tile \in Nat /\ kernel.q_pos \in Int /\ kernel.q_len \in Int
    BY <1>3, LaunchAssumption
  <2>2. valid_keys \in Int
    BY <2>1 DEF valid_keys
  <2>3. ASSUME NEW m \in Int, NEW n \in Int PROVE Min({m, n}) \in Int
    <3>1. \E x \in {m, n} : \A y \in {m, n} : x <= y
      OBVIOUS
    <3> QED BY <3>1 DEF Min
  <2>4. ASSUME NEW pos \in Int PROVE KeysFrom(pos) \in Int
    <3>1. valid_keys - pos \in Int
      BY <2>2
    <3> QED BY <2>1, <2>3, <3>1 DEF KeysFrom
  <2> QED BY <2>1, <2>2, <2>4
<1> QED BY <1>1, <1>2, <1>3

\* Two threads that wait in a section wait at the same barrier, and none of
\* them has left.
LEMMA WaitersAgree ==
  ASSUME kernel \in Launches, NEW e \in Section, InKernel(e),
         NEW l1, NEW r1, Fits(e, l1, TRUE, r1), NEW l2, NEW w2, NEW r2, Fits(e, l2, w2, r2)
  PROVE  /\ l2 # "exit"
         /\ w2 => l1 = l2
<1> USE SizesType DEF Section, Position, Entries, Returns
<1>1. CASE ReduceSection(e, l1, TRUE, r1)
  BY <1>1 DEF Fits, ReduceSection, RowSection, MatrixSection, DecodeSection, SdpaSection
<1>2. CASE RowSection(e, l1, TRUE, r1)
  BY <1>2 DEF Fits, ReduceSection, RowSection, MatrixSection, DecodeSection, SdpaSection, Reducing
<1>3. CASE MatrixSection(e, l1, TRUE, r1)
  BY <1>3 DEF Fits, ReduceSection, RowSection, MatrixSection, DecodeSection, SdpaSection, InKernel, Labels
<1>4. CASE DecodeSection(e, l1, TRUE, r1)
  BY <1>4 DEF Fits, ReduceSection, RowSection, MatrixSection, DecodeSection, SdpaSection, Reducing, InKernel, Labels
<1>5. CASE SdpaSection(e, l1, TRUE, r1)
  BY <1>5 DEF Fits, ReduceSection, RowSection, MatrixSection, DecodeSection, SdpaSection, Reducing, InKernel, Labels
<1> QED BY <1>1, <1>2, <1>3, <1>4, <1>5 DEF Fits

\* The invariant implies the property.
LEMMA InvSafe == ASSUME BlockInv PROVE BlockSafe
<1>1. PICK e \in Section : InSection(e)
  BY DEF BlockInv
<1>2. ASSUME NEW a \in accesses, NEW b \in accesses, a.slot = b.slot, a.thread # b.thread
      PROVE  {a.kind, b.kind} = {"read"}
  <2>1. Allowed(e.label, a.kind, a.slot, a.thread) /\ Allowed(e.label, b.kind, b.slot, b.thread)
    BY <1>1 DEF InSection, AccessesFit
  <2>2. CASE <<e.label, a.slot[1]>> \in ReadOnly
    BY <1>2, <2>1, <2>2 DEF Allowed
  <2>3. CASE <<e.label, a.slot[1]>> \notin ReadOnly
    <3>1. Owns(e.label, a.thread, a.slot) /\ Owns(e.label, b.thread, a.slot)
      BY <1>2, <2>1, <2>3 DEF Allowed
    <3> QED BY <1>2, <3>1, OneOwner
  <2> QED BY <2>2, <2>3
<1>3. ASSUME NEW t \in waiting, NEW u \in Threads
      PROVE  pc[u] # "exit" /\ (u \in waiting => pc[t] = pc[u])
  <2>1. t \in Threads /\ (t \in waiting) = TRUE
    BY DEF BlockInv
  <2>2. Fits(e, pc[t], TRUE, reg[t]) /\ Fits(e, pc[u], u \in waiting, reg[u])
    BY <1>1, <2>1 DEF InSection
  <2> QED BY <1>1, <2>2, WaitersAgree DEF BlockInv, InSection
<1>4. waiting # {} => exited = {}
  BY <1>3 DEF exited
<1>5. waiting = Threads => \A t, u \in Threads : pc[t] = pc[u]
  BY <1>3
<1> QED BY <1>2, <1>4, <1>5 DEF BlockSafe, Unordered

-----------------------------------------------------------------------------
(* The beginning of a section. *)

\* In the initial state all threads enter the kernel.
LEMMA InitInv == BlockInit => BlockInv
<1> SUFFICES ASSUME BlockInit PROVE BlockInv
  OBVIOUS
<1>1. kernel \in Launches /\ launchable(kernel) /\ waiting = {} /\ accesses = {}
  BY DEF BlockInit
<1>2. DOMAIN pc = Threads /\ DOMAIN reg = Threads /\ \A t \in Threads : pc[t] = kernel.name /\ reg[t] = Locals
  BY DEF BlockInit
<1>3. kernel.name \in {"rmsnorm", "softmax", "sgemm", "q8", "decode", "sdpa"}
  BY <1>1, LaunchAssumption
<1>4. PICK l, p :
         \/ kernel.name # "decode" /\ l = kernel.name /\ p = 0
         \/ kernel.name = "decode" /\ l = "decode_update" /\ p = -1
  OBVIOUS
<1>5. PICK e \in Section : e.label = l /\ e.pos = p /\ e.t = 0 /\ e.ret = "sdpa_keep"
  <2> DEFINE f == [label |-> l, pos |-> p, t |-> 0, op |-> "sum", ret |-> "sdpa_keep"]
  <2>1. f \in Section
    BY <1>3, <1>4 DEF Section, Position, Entries, Returns
  <2> QED BY <2>1
<1>6. Fits(e, kernel.name, FALSE, Locals)
  <2>1. Locals.pos = 0 /\ Locals.t = 0
    BY DEF Locals
  <2>4. Locals.pos \in Position /\ Locals.t \in Int
    BY <2>1 DEF Position
  <2>2. CASE kernel.name = "decode"
    <3>1. e.label = "decode_update" /\ e.pos = -1
      BY <1>4, <1>5, <2>2
    <3>2. \A q \in (e.pos + 1)..(Locals.pos - 1) : missing(q)
      BY <2>1, <3>1
    <3>3. DecodeSection(e, "decode", FALSE, Locals)
      BY <1>5, <2>1, <3>1, <3>2 DEF DecodeSection
    <3> QED BY <2>2, <2>4, <3>3 DEF Fits
  <2>3. CASE kernel.name # "decode"
    <3>1. e.label = kernel.name /\ e.pos = 0 /\ e.t = 0
      BY <1>4, <1>5, <2>3
    <3>2. \/ RowSection(e, kernel.name, FALSE, Locals)
          \/ MatrixSection(e, kernel.name, FALSE, Locals)
          \/ SdpaSection(e, kernel.name, FALSE, Locals)
      BY <1>3, <2>1, <2>3, <3>1 DEF RowSection, MatrixSection, SdpaSection
    <3> QED BY <2>4, <3>2 DEF Fits
  <2> QED BY <2>2, <2>3
<1>8. InKernel(e)
  BY <1>3, <1>4, <1>5 DEF InKernel, Labels
<1>7. InSection(e)
  <2>1. ASSUME NEW t \in Threads PROVE pc[t] = kernel.name /\ reg[t] = Locals /\ (t \in waiting) = FALSE
    BY <1>1, <1>2
  <2>2. ASSUME NEW t \in Threads PROVE Fits(e, pc[t], t \in waiting, reg[t])
    BY <1>6, <2>1
  <2> QED BY <1>1, <1>8, <2>2 DEF InSection, AccessesFit
<1> QED BY <1>1, <1>2, <1>7 DEF BlockInv

\* The sections are those of their fields.
LEMMA SectionOf ==
  ASSUME NEW label \in Entries, NEW pos \in Position, NEW t \in Int, NEW op \in {"sum", "max"}, NEW ret \in Returns
  PROVE  \E e \in Section : e.label = label /\ e.pos = pos /\ e.t = t /\ e.op = op /\ e.ret = ret
<1> DEFINE e == [label |-> label, pos |-> pos, t |-> t, op |-> op, ret |-> ret]
<1>1. e \in Section
  BY DEF Section
<1> QED BY <1>1

\* Threads that wait at a barrier at which a reduction is under way have the
\* position, key and reduction in common.
LEMMA ReducersAgree ==
  ASSUME kernel \in Launches, NEW e \in Section, InKernel(e), NEW l \in {"get_partial", "get_result"},
         NEW r, Fits(e, l, TRUE, r)
  PROVE  /\ r.op \in {"sum", "max"} /\ r.ret \in Returns
         /\ \A s : Fits(e, l, TRUE, s) => s.pos = r.pos /\ s.t = r.t /\ s.op = r.op /\ s.ret = r.ret
         /\ l = "get_partial" => <<kernel.name, r.ret>> \in Labels
         /\ l = "get_result" => r.ret = e.ret /\ e.label = "get_partial"
<1> USE SizesType DEF Section, Position, Entries, Returns
<1>1. CASE ReduceSection(e, l, TRUE, r)
  BY <1>1 DEF Fits, ReduceSection, RowSection, MatrixSection, DecodeSection, SdpaSection, InKernel
<1>2. CASE RowSection(e, l, TRUE, r)
  BY <1>2 DEF Fits, ReduceSection, RowSection, MatrixSection, DecodeSection, SdpaSection, Reducing, Reductions, InKernel, Labels
<1>3. CASE MatrixSection(e, l, TRUE, r)
  BY <1>3 DEF MatrixSection
<1>4. CASE DecodeSection(e, l, TRUE, r)
  BY <1>4 DEF Fits, ReduceSection, RowSection, MatrixSection, DecodeSection, SdpaSection, Reducing, Reductions, InKernel, Labels
<1>5. CASE SdpaSection(e, l, TRUE, r)
  BY <1>5 DEF Fits, ReduceSection, RowSection, MatrixSection, DecodeSection, SdpaSection, Reducing, Reductions, InKernel, Labels
<1> QED BY <1>1, <1>2, <1>3, <1>4, <1>5 DEF Fits

\* All threads that wait at a barrier are in the section that is entered there.
LEMMA NextSection ==
  ASSUME kernel \in Launches, NEW e \in Section, InKernel(e), NEW l, NEW r, Fits(e, l, TRUE, r)
  PROVE  \E f \in Section : InKernel(f) /\ \A s : Fits(e, l, TRUE, s) => Fits(f, l, FALSE, s)
<1>1. r.pos \in Position /\ r.t \in Int
  BY DEF Fits
<1>2. CASE l \in {"get_partial", "get_result"}
  <2>1. /\ r.op \in {"sum", "max"} /\ r.ret \in Returns
        /\ \A s : Fits(e, l, TRUE, s) => s.pos = r.pos /\ s.t = r.t /\ s.op = r.op /\ s.ret = r.ret
        /\ l = "get_partial" => <<kernel.name, r.ret>> \in Labels
        /\ l = "get_result" => r.ret = e.ret /\ e.label = "get_partial"
    BY <1>2, ReducersAgree
  <2>2. l \in Entries
    BY <1>2 DEF Entries
  <2>3. PICK f \in Section : f.label = l /\ f.pos = r.pos /\ f.t = r.t /\ f.op = r.op /\ f.ret = r.ret
    BY <1>1, <2>1, <2>2, SectionOf
  <2>4. InKernel(f)
    BY <1>2, <2>1, <2>3 DEF InKernel
  <2>5. ASSUME NEW s, Fits(e, l, TRUE, s) PROVE Fits(f, l, FALSE, s)
    BY <1>1, <1>2, <2>1, <2>3, <2>5 DEF Fits, ReduceSection
  <2> QED BY <2>4, <2>5
<1>3. CASE l \notin {"get_partial", "get_result"}
  <2> DEFINE label == IF l = "sdpa_score" THEN "sdpa_keep" ELSE l
             key   == IF l = "sdpa_score" THEN -1 ELSE r.t
  <2>1. /\ label \in Entries /\ <<kernel.name, label>> \in Labels
        /\ label \notin {"get_partial", "get_result"}
    <3> USE <1>3 DEF Section, Position, Entries, Returns, InKernel, Labels
    <3>1. CASE ReduceSection(e, l, TRUE, r)
      BY <3>1 DEF ReduceSection
    <3>2. CASE RowSection(e, l, TRUE, r)
      BY <3>2 DEF RowSection, Reducing
    <3>3. CASE MatrixSection(e, l, TRUE, r)
      BY <3>3 DEF MatrixSection
    <3>4. CASE DecodeSection(e, l, TRUE, r)
      BY <3>4 DEF DecodeSection, Reducing
    <3>5. CASE SdpaSection(e, l, TRUE, r)
      BY <3>5 DEF SdpaSection, Reducing
    <3> QED BY <3>1, <3>2, <3>3, <3>4, <3>5 DEF Fits
  <2>2. key \in Int
    BY <1>1
  <2>3. "sum" \in {"sum", "max"} /\ "sdpa_keep" \in Returns
    BY DEF Returns
  <2>4. PICK f \in Section : f.label = label /\ f.pos = r.pos /\ f.t = key
    BY <1>1, <2>1, <2>2, <2>3, SectionOf
  <2>5. InKernel(f)
    BY <2>1, <2>4 DEF InKernel
  <2>6. ASSUME NEW s, Fits(e, l, TRUE, s) PROVE Fits(f, l, FALSE, s)
    <3> USE <1>1, <1>3, <2>4, <2>6 DEF Section, Position, Returns
    <3>1. CASE ReduceSection(e, l, TRUE, r)
      BY <3>1, ZenonT(40) DEF Fits, ReduceSection, RowSection, MatrixSection, DecodeSection, SdpaSection
    <3>2. CASE RowSection(e, l, TRUE, r)
      BY <3>2 DEF RowSection, Reducing
    <3>3. CASE MatrixSection(e, l, TRUE, r)
      BY <3>3 DEF Fits, ReduceSection, RowSection, MatrixSection, DecodeSection, SdpaSection
    <3>4. CASE DecodeSection(e, l, TRUE, r)
      BY <3>4 DEF DecodeSection, Reducing
    <3>5. CASE SdpaSection(e, l, TRUE, r)
      BY <3>5 DEF Fits, ReduceSection, RowSection, MatrixSection, DecodeSection, SdpaSection, Reducing
    <3> QED BY <3>1, <3>2, <3>3, <3>4, <3>5 DEF Fits
  <2> QED BY <2>5, <2>6
<1> QED BY <1>2, <1>3

\* Behind a barrier all threads are in the section that is entered there.
LEMMA BarrierInv == ASSUME BlockInv, syncthreads PROVE BlockInv'
<1>1. PICK e \in Section : InSection(e)
  BY DEF BlockInv
<1>2. /\ kernel' = kernel /\ pc' = pc /\ reg' = reg /\ waiting' = {} /\ accesses' = {}
      /\ waiting = Threads /\ Threads' = Threads
  BY DEF syncthreads, Threads, BLOCK
<1>3. PICK l : l = pc[0]
  OBVIOUS
<1>4. 0 \in Threads
  BY BlockShape DEF BlockInv
<1>5. ASSUME NEW t \in Threads PROVE pc[t] = l /\ Fits(e, l, TRUE, reg[t])
  <2>1. pc[t] = l /\ (t \in waiting) = TRUE
    BY <1>2, <1>3, <1>4 DEF syncthreads
  <2> QED BY <1>1, <2>1 DEF InSection
<1>6. PICK f \in Section : InKernel(f) /\ \A s : Fits(e, l, TRUE, s) => Fits(f, l, FALSE, s)
  BY <1>1, <1>4, <1>5, NextSection DEF InSection, BlockInv
<1>7. ASSUME NEW t \in Threads' PROVE Fits(f, pc[t], t \in waiting, reg[t])'
  <2>1. Fits(f, pc'[t], t \in waiting', reg'[t])
    <3>1. pc'[t] = l /\ reg'[t] = reg[t] /\ Fits(e, l, TRUE, reg[t])
      BY <1>2, <1>5
    <3>2. (t \in waiting') = FALSE
      BY <1>2
    <3> QED BY <1>6, <3>1, <3>2
  <2> QED BY <1>2, <2>1, FitsStays
<1>8. InSection(f)'
  BY <1>2, <1>6, <1>7 DEF InSection, InKernel, AccessesFit
<1> QED BY <1>2, <1>8 DEF BlockInv

-----------------------------------------------------------------------------
(* The steps of a reduction. *)

\* What is recorded of an access.
LEMMA TouchedFields ==
  ASSUME NEW t, NEW kind, NEW S, NEW a \in Touched(t, kind, S)
  PROVE  DOMAIN a = Access /\ a.kind = kind /\ a.thread = t /\ a.slot \in S
<1>1. PICK s \in S : a = [slot |-> s, kind |-> kind, thread |-> t, settled |-> FALSE]
  BY DEF Touched
<1> QED BY <1>1 DEF Access

\* The slot of a warp is put by its lane 0 alone.
LEMMA PutPartialInv == ASSUME BlockInv, NEW t \in Threads, put_partial(t) PROVE BlockInv'
<1>1. PICK e \in Section : InSection(e)
  BY DEF BlockInv
<1>2. Fits(e, "put_partial", FALSE, reg[t])
  <2>1. pc[t] = "put_partial" /\ (t \in waiting) = FALSE
    BY DEF put_partial, at
  <2> QED BY <1>1, <2>1 DEF InSection
<1>3. /\ kernel' = kernel /\ waiting' = waiting \cup {t}
      /\ pc' = [pc EXCEPT ![t] = "get_partial"] /\ reg' = [reg EXCEPT ![t] = reg[t]]
  BY DEF put_partial, sync, go
<1>4. Fits(e, "get_partial", TRUE, reg[t])
  BY <1>2 DEF Fits, ReduceSection, RowSection, MatrixSection, DecodeSection, SdpaSection, Reducing
<1>5. ASSUME NEW a \in accesses', a \notin accesses
      PROVE  DOMAIN a = Access /\ Allowed(e.label, a.kind, a.slot, a.thread)
  <2> DEFINE writes == IF lane(t) = 0 THEN Cell(<<reg[t].op, warp(t)>>, reg[t].v) ELSE NoWrites
  <2>1. a \in Touched(t, "write", DOMAIN writes)
    BY <1>5 DEF put_partial, sync, go, NoSlots, Touched
  <2>2. DOMAIN a = Access /\ a.kind = "write" /\ a.thread = t /\ a.slot \in DOMAIN writes
    BY <2>1, TouchedFields
  <2>3. a.slot = <<reg[t].op, warp(t)>> /\ lane(t) = 0
    BY <2>2 DEF NoWrites, Cell
  <2>4. t = warp(t) * kernel.lanes
    <3>1. PICK n \in Nat, d \in Nat, w \in Nat : n = t /\ d = kernel.lanes /\ w = warp(t) /\ n = w * d + 0
      BY <2>3, BlockShape, WarpAndLane DEF BlockInv
    <3> QED BY <3>1
  <2>5. reg[t].op \in {"sum", "max"} /\ e.label # "get_partial" /\ <<e.label, reg[t].op>> \notin ReadOnly
    BY <1>2 DEF Fits, ReduceSection, RowSection, MatrixSection, DecodeSection, SdpaSection, Reducing, Reductions, ReadOnly
  <2> QED BY <2>2, <2>3, <2>4, <2>5 DEF Allowed, Owns
<1>6. DOMAIN reg[t] = DOMAIN Locals
  BY DEF BlockInv
<1>7. pc'[t] = "get_partial" /\ reg'[t] = reg[t] /\ (t \in waiting') = TRUE
  BY <1>3 DEF BlockInv
<1> QED BY <1>1, <1>3, <1>4, <1>5, <1>6, <1>7, StepStays DEF BlockInv

\* A thread reads the partial of its own number: those that read are lanes of
\* the first warp.
LEMMA GetPartialInv == ASSUME BlockInv, NEW t \in Threads, get_partial(t) PROVE BlockInv'
<1>1. PICK e \in Section : InSection(e)
  BY DEF BlockInv
<1>2. Fits(e, "get_partial", FALSE, reg[t]) /\ t \notin waiting
  <2>1. pc[t] = "get_partial" /\ (t \in waiting) = FALSE
    BY DEF get_partial, at
  <2> QED BY <1>1, <2>1 DEF InSection
<1>3. PICK l, x :
         /\ l \in {"reduce_partials", "put_result"}
         /\ pc' = [pc EXCEPT ![t] = l] /\ reg' = [reg EXCEPT ![t] = [reg[t] EXCEPT !.v = x]]
  BY DEF get_partial, run, go
<1>4. kernel' = kernel /\ waiting' = waiting
  BY DEF get_partial, run, go
<1>5. DOMAIN reg[t] = DOMAIN Locals /\ DOMAIN pc = Threads /\ DOMAIN reg = Threads
  BY DEF BlockInv
<1>6. PICK r : r = [reg[t] EXCEPT !.v = x]
  OBVIOUS
<1>7. /\ DOMAIN r = DOMAIN Locals
      /\ r.pos = reg[t].pos /\ r.t = reg[t].t /\ r.op = reg[t].op /\ r.ret = reg[t].ret
  BY <1>5, <1>6 DEF Locals
<1>8. Fits(e, l, FALSE, r) /\ e.label = "get_partial" /\ reg[t].op \in {"sum", "max"}
  BY <1>2, <1>3, <1>7 DEF Fits, ReduceSection, RowSection, MatrixSection, DecodeSection, SdpaSection, Section, Position, Reducing
<1>9. ASSUME NEW a \in accesses', a \notin accesses
      PROVE  DOMAIN a = Access /\ Allowed(e.label, a.kind, a.slot, a.thread)
  <2>1. t < kernel.warps /\ a \in Touched(t, "read", {<<reg[t].op, lane(t)>>})
    BY <1>9 DEF get_partial, run, go, NoSlots, NoWrites, Touched
  <2>2. DOMAIN a = Access /\ a.kind = "read" /\ a.thread = t /\ a.slot = <<reg[t].op, lane(t)>>
    BY <2>1, TouchedFields
  <2>3. lane(t) = t
    BY <2>1, WarpAndLane DEF BlockInv
  <2> QED BY <1>8, <2>2, <2>3 DEF Allowed, Owns, ReadOnly
<1>10. pc'[t] = l /\ reg'[t] = r /\ (t \in waiting') = FALSE
  BY <1>2, <1>3, <1>4, <1>5, <1>6
<1> QED BY <1>1, <1>3, <1>4, <1>5, <1>7, <1>8, <1>9, <1>10, StepStays, ZenonT(40)

\* Thread 0 puts the result where it read a partial.
LEMMA PutResultInv == ASSUME BlockInv, NEW t \in Threads, put_result(t) PROVE BlockInv'
<1>1. PICK e \in Section : InSection(e)
  BY DEF BlockInv
<1>2. Fits(e, "put_result", FALSE, reg[t])
  <2>1. pc[t] = "put_result" /\ (t \in waiting) = FALSE
    BY DEF put_result, at
  <2> QED BY <1>1, <2>1 DEF InSection
<1>3. /\ kernel' = kernel /\ waiting' = waiting \cup {t}
      /\ pc' = [pc EXCEPT ![t] = "get_result"] /\ reg' = [reg EXCEPT ![t] = reg[t]]
  BY DEF put_result, sync, go
<1>4. Fits(e, "get_result", TRUE, reg[t]) /\ e.label = "get_partial" /\ reg[t].op \in {"sum", "max"}
  BY <1>2 DEF Fits, ReduceSection, RowSection, MatrixSection, DecodeSection, SdpaSection, Reducing, Section
<1>5. ASSUME NEW a \in accesses', a \notin accesses
      PROVE  DOMAIN a = Access /\ Allowed(e.label, a.kind, a.slot, a.thread)
  <2> DEFINE writes == IF t = 0 THEN Cell(<<reg[t].op, 0>>, reg[t].v) ELSE NoWrites
  <2>1. a \in Touched(t, "write", DOMAIN writes)
    BY <1>5 DEF put_result, sync, go, NoSlots, Touched
  <2>2. DOMAIN a = Access /\ a.kind = "write" /\ a.thread = t /\ a.slot \in DOMAIN writes
    BY <2>1, TouchedFields
  <2>3. a.slot = <<reg[t].op, 0>> /\ t = 0
    BY <2>2 DEF NoWrites, Cell
  <2> QED BY <1>4, <2>2, <2>3 DEF Allowed, Owns, ReadOnly
<1>6. DOMAIN reg[t] = DOMAIN Locals
  BY DEF BlockInv
<1>7. pc'[t] = "get_result" /\ reg'[t] = reg[t] /\ (t \in waiting') = TRUE
  BY <1>3 DEF BlockInv
<1> QED BY <1>1, <1>3, <1>4, <1>5, <1>6, <1>7, StepStays DEF BlockInv

\* The result is only read, until the barrier behind it.
LEMMA GetResultInv == ASSUME BlockInv, NEW t \in Threads, get_result(t) PROVE BlockInv'
<1>1. PICK e \in Section : InSection(e)
  BY DEF BlockInv
<1>2. Fits(e, "get_result", FALSE, reg[t])
  <2>1. pc[t] = "get_result" /\ (t \in waiting) = FALSE
    BY DEF get_result, at
  <2> QED BY <1>1, <2>1 DEF InSection
<1>3. PICK l, r : l = reg[t].ret /\ r = [reg[t] EXCEPT !.v = shared[<<reg[t].op, 0>>]]
  OBVIOUS
<1>4. /\ kernel' = kernel /\ waiting' = waiting \cup {t}
      /\ pc' = [pc EXCEPT ![t] = l] /\ reg' = [reg EXCEPT ![t] = r]
  BY <1>3 DEF get_result, sync, go
<1>5. DOMAIN reg[t] = DOMAIN Locals /\ DOMAIN pc = Threads /\ DOMAIN reg = Threads
  BY DEF BlockInv
<1>6. /\ DOMAIN r = DOMAIN Locals
      /\ r.pos = reg[t].pos /\ r.t = reg[t].t /\ r.op = reg[t].op /\ r.ret = reg[t].ret
  BY <1>3, <1>5 DEF Locals
<1>7. Fits(e, l, TRUE, r) /\ e.label = "get_result" /\ reg[t].op \in {"sum", "max"}
  BY <1>2, <1>3, <1>6 DEF Fits, ReduceSection, RowSection, MatrixSection, DecodeSection, SdpaSection, Section, Position, Reducing
<1>8. ASSUME NEW a \in accesses', a \notin accesses
      PROVE  DOMAIN a = Access /\ Allowed(e.label, a.kind, a.slot, a.thread)
  <2>1. a \in Touched(t, "read", {<<reg[t].op, 0>>})
    BY <1>8 DEF get_result, sync, go, NoWrites, Touched
  <2>2. DOMAIN a = Access /\ a.kind = "read" /\ a.slot = <<reg[t].op, 0>>
    BY <2>1, TouchedFields
  <2> QED BY <1>7, <2>2 DEF Allowed, ReadOnly
<1>9. pc'[t] = l /\ reg'[t] = r /\ (t \in waiting') = TRUE
  BY <1>4, <1>5
<1> QED BY <1>1, <1>4, <1>5, <1>6, <1>7, <1>8, <1>9, StepStays

\* The lanes of a warp go on together, with another value each.
LEMMA ShuffleInv ==
  ASSUME BlockInv, NEW w, NEW label, NEW next, shuffle(w, label, next),
         <<label, next>> \in {<<"reduce", "put_partial">>, <<"reduce_partials", "put_result">>}
  PROVE  BlockInv'
<1> DEFINE lanes == {t \in Threads : warp(t) = w}
<1>1. PICK e \in Section : InSection(e)
  BY DEF BlockInv
<1>2. kernel' = kernel /\ waiting' = waiting /\ Threads' = Threads
  BY DEF shuffle, Threads, BLOCK
<1>3. PICK v : reg' = [t \in Threads |-> IF t \in lanes THEN [reg[t] EXCEPT !.v = v[lane(t)]] ELSE reg[t]]
  BY DEF shuffle
<1>4. pc' = [t \in Threads |-> IF t \in lanes THEN next ELSE pc[t]]
  BY DEF shuffle
<1>5. accesses' = {IF a.thread \in lanes THEN [a EXCEPT !.settled = TRUE] ELSE a : a \in accesses}
  BY DEF shuffle
<1>6. ASSUME NEW t \in Threads
      PROVE  DOMAIN reg'[t] = DOMAIN Locals /\ Fits(e, pc'[t], t \in waiting', reg'[t])
  <2>1. DOMAIN reg[t] = DOMAIN Locals /\ Fits(e, pc[t], t \in waiting, reg[t])
    BY <1>1 DEF BlockInv, InSection
  <2>2. CASE t \in lanes
    <3>1. pc[t] = label /\ (t \in waiting) = FALSE /\ (t \in waiting') = FALSE
      BY <1>2, <2>2 DEF shuffle, at
    <3>2. PICK r, x : r = [reg[t] EXCEPT !.v = x] /\ reg'[t] = r
      BY <1>3, <2>2
    <3>3. /\ DOMAIN r = DOMAIN Locals
          /\ r.pos = reg[t].pos /\ r.t = reg[t].t /\ r.op = reg[t].op /\ r.ret = reg[t].ret
      BY <2>1, <3>2 DEF Locals
    <3>4. Fits(e, next, FALSE, r)
      BY <2>1, <3>1, <3>3 DEF Fits, ReduceSection, RowSection, MatrixSection, DecodeSection, SdpaSection, Section, Position,
                              Entries, Returns, Reducing
    <3>5. pc'[t] = next
      BY <1>4, <2>2
    <3> QED BY <3>1, <3>2, <3>3, <3>4, <3>5
  <2>3. CASE t \notin lanes
    <3>1. pc'[t] = pc[t] /\ reg'[t] = reg[t] /\ waiting' = waiting
      BY <1>2, <1>3, <1>4, <2>3
    <3> QED BY <2>1, <3>1
  <2> QED BY <2>2, <2>3
<1>7. ASSUME NEW b \in accesses'
      PROVE  DOMAIN b = Access /\ Allowed(e.label, b.kind, b.slot, b.thread)'
  <2>1. PICK a \in accesses : b = IF a.thread \in lanes THEN [a EXCEPT !.settled = TRUE] ELSE a
    BY <1>5
  <2>2. DOMAIN a = Access /\ Allowed(e.label, a.kind, a.slot, a.thread)
    BY <1>1 DEF InSection, AccessesFit
  <2>3. DOMAIN b = Access /\ b.kind = a.kind /\ b.slot = a.slot /\ b.thread = a.thread
    BY <2>1, <2>2 DEF Access
  <2>4. PICK kind, s, u : kind = b.kind /\ s = b.slot /\ u = b.thread
    OBVIOUS
  <2> QED BY <1>2, <2>2, <2>3, <2>4, AllowedStays
<1>8. ASSUME NEW t \in Threads PROVE Fits(e, pc[t], t \in waiting, reg[t])'
  BY <1>2, <1>6, FitsStays
<1>9. InSection(e)'
  BY <1>1, <1>2, <1>7, <1>8 DEF InSection, InKernel, AccessesFit
<1>10. DOMAIN pc' = Threads /\ DOMAIN reg' = Threads
  BY <1>3, <1>4
<1> QED BY <1>2, <1>6, <1>9, <1>10 DEF BlockInv

-----------------------------------------------------------------------------
(* Steps without a shared slot. *)

\* Touching nothing adds no access.
LEMMA NothingTouched == ASSUME NEW t, NEW kind PROVE Touched(t, kind, NoSlots) = {} /\ Touched(t, kind, DOMAIN NoWrites) = {}
BY DEF Touched, NoSlots, NoWrites

\* A step of thread t from label k to label l keeps the section of all if it
\* touches no slot and t stays in its section.
LEMMA QuietStays ==
  ASSUME BlockInv, NEW t \in Threads, NEW k, at(t, k),
         NEW l, NEW r, DOMAIN r = DOMAIN Locals,
         kernel' = kernel, accesses' = accesses, waiting' \in {waiting, waiting \cup {t}},
         pc' = [pc EXCEPT ![t] = l], reg' = [reg EXCEPT ![t] = r],
         \A e \in Section : InKernel(e) /\ Fits(e, k, FALSE, reg[t]) => Fits(e, l, t \in waiting', r)
  PROVE  BlockInv'
<1>1. PICK e \in Section : InSection(e)
  BY DEF BlockInv
<1>2. Fits(e, l, t \in waiting', r)
  BY <1>1, FitsAt DEF InSection
<1> QED BY <1>1, <1>2, TouchStays

\* A thread that leaves keeps the section of all.
LEMMA LeaveInv ==
  ASSUME BlockInv, NEW t \in Threads, NEW k, at(t, k),
         kernel' = kernel, waiting' = waiting, reg' = reg, accesses' = accesses, pc' = [pc EXCEPT ![t] = "exit"],
         \A e \in Section : InKernel(e) /\ Fits(e, k, FALSE, reg[t]) => Fits(e, "exit", FALSE, reg[t])
  PROVE  BlockInv'
<1>1. PICK e \in Section : InSection(e)
  BY DEF BlockInv
<1>2. pc[t] = k /\ (t \in waiting) = FALSE /\ (t \in waiting') = FALSE
  BY DEF at
<1>3. Fits(e, "exit", FALSE, reg[t])
  BY <1>1, <1>2 DEF InSection
<1>4. DOMAIN pc = Threads /\ DOMAIN reg[t] = DOMAIN Locals
  BY DEF BlockInv
<1>5. pc'[t] = "exit" /\ DOMAIN pc' = DOMAIN pc /\ \A u \in Threads \ {t} : pc'[u] = pc[u]
  BY <1>4
<1>6. Fits(e, pc'[t], t \in waiting', reg'[t]) /\ DOMAIN reg'[t] = DOMAIN Locals
  BY <1>2, <1>3, <1>4, <1>5
<1> QED BY <1>1, <1>5, <1>6, StepStays

\* The locals of a thread with which it calls a block reduction.
Called(t, op, v, ret) == [reg[t] EXCEPT !.op = op, !.v = v, !.ret = ret]

\* A call leaves the position and the key of the tile alone.
LEMMA CalledFields ==
  ASSUME BlockInv, NEW t \in Threads, NEW op, NEW v, NEW ret, NEW r, r = Called(t, op, v, ret)
  PROVE  DOMAIN r = DOMAIN Locals /\ r.pos = reg[t].pos /\ r.t = reg[t].t /\ r.op = op /\ r.ret = ret
<1>1. DOMAIN reg[t] = DOMAIN Locals
  BY DEF BlockInv
<1> QED BY <1>1 DEF Called, Locals

-----------------------------------------------------------------------------
(* RMSNorm and softmax. *)

\* A thread that enters a reduction stays in the section that it ends.
LEMMA EnterReduction ==
  ASSUME NEW e \in Section, NEW k, NEW r, NEW s, NEW op, NEW ret,
         s.pos = r.pos, s.t = r.t, s.op = op, s.ret = ret,
         <<k, op, ret>> \in {<<"rmsnorm", "sum", "rmsnorm_write">>, <<"softmax", "max", "softmax_sum">>,
                             <<"softmax_sum", "sum", "softmax_divide">>},
         Fits(e, k, FALSE, r)
  PROVE  Fits(e, "reduce", FALSE, s)
BY DEF Fits, ReduceSection, RowSection, MatrixSection, DecodeSection, SdpaSection, Section, Position, Reducing, Reductions

\* A thread that writes its part of a row stays in the last section.
LEMMA LeaveRow ==
  ASSUME NEW e \in Section, NEW k \in {"rmsnorm_write", "softmax_divide"}, NEW r, Fits(e, k, FALSE, r)
  PROVE  Fits(e, "exit", FALSE, r)
BY DEF Fits, ReduceSection, RowSection, MatrixSection, DecodeSection, SdpaSection, Section, Position, Reducing

\* The threads of a row agree, since the length of the loops does not matter.
LEMMA RowInv == ASSUME BlockInv, NEW t \in Threads, row_step(t) PROVE BlockInv'
<1>1. CASE rmsnorm_sum(t)
  <2>1. PICK v, r : r = Called(t, "sum", v, "rmsnorm_write") /\ reg' = [reg EXCEPT ![t] = r]
    BY <1>1 DEF rmsnorm_sum, block_reduce, run, go, Called
  <2>2. /\ at(t, "rmsnorm") /\ kernel' = kernel /\ waiting' = waiting /\ accesses' = accesses
        /\ pc' = [pc EXCEPT ![t] = "reduce"]
    BY <1>1, NothingTouched DEF rmsnorm_sum, block_reduce, run, go
  <2>3. DOMAIN r = DOMAIN Locals /\ r.pos = reg[t].pos /\ r.t = reg[t].t /\ r.op = "sum" /\ r.ret = "rmsnorm_write"
    BY <2>1, CalledFields
  <2>4. \A e \in Section : Fits(e, "rmsnorm", FALSE, reg[t]) => Fits(e, "reduce", FALSE, r)
    BY <2>3, EnterReduction
  <2>5. (t \in waiting') = FALSE
    BY <2>2 DEF at
  <2>6. \A e \in Section : InKernel(e) /\ Fits(e, "rmsnorm", FALSE, reg[t]) => Fits(e, "reduce", t \in waiting', r)
    BY <2>4, <2>5
  <2> QED BY <2>1, <2>2, <2>3, <2>6, QuietStays
<1>2. CASE softmax_max(t)
  <2>1. PICK v, r : r = Called(t, "max", v, "softmax_sum") /\ reg' = [reg EXCEPT ![t] = r]
    BY <1>2 DEF softmax_max, block_reduce, run, go, Called
  <2>2. /\ at(t, "softmax") /\ kernel' = kernel /\ waiting' = waiting /\ accesses' = accesses
        /\ pc' = [pc EXCEPT ![t] = "reduce"]
    BY <1>2, NothingTouched DEF softmax_max, block_reduce, run, go
  <2>3. DOMAIN r = DOMAIN Locals /\ r.pos = reg[t].pos /\ r.t = reg[t].t /\ r.op = "max" /\ r.ret = "softmax_sum"
    BY <2>1, CalledFields
  <2>4. \A e \in Section : Fits(e, "softmax", FALSE, reg[t]) => Fits(e, "reduce", FALSE, r)
    BY <2>3, EnterReduction
  <2>5. (t \in waiting') = FALSE
    BY <2>2 DEF at
  <2>6. \A e \in Section : InKernel(e) /\ Fits(e, "softmax", FALSE, reg[t]) => Fits(e, "reduce", t \in waiting', r)
    BY <2>4, <2>5
  <2> QED BY <2>1, <2>2, <2>3, <2>6, QuietStays
<1>3. CASE softmax_sum(t)
  <2>1. PICK v, r : r = Called(t, "sum", v, "softmax_divide") /\ reg' = [reg EXCEPT ![t] = r]
    BY <1>3 DEF softmax_sum, block_reduce, run, go, Called
  <2>2. /\ at(t, "softmax_sum") /\ kernel' = kernel /\ waiting' = waiting /\ accesses' = accesses
        /\ pc' = [pc EXCEPT ![t] = "reduce"]
    BY <1>3, NothingTouched DEF softmax_sum, block_reduce, run, go
  <2>3. DOMAIN r = DOMAIN Locals /\ r.pos = reg[t].pos /\ r.t = reg[t].t /\ r.op = "sum" /\ r.ret = "softmax_divide"
    BY <2>1, CalledFields
  <2>4. \A e \in Section : Fits(e, "softmax_sum", FALSE, reg[t]) => Fits(e, "reduce", FALSE, r)
    BY <2>3, EnterReduction
  <2>5. (t \in waiting') = FALSE
    BY <2>2 DEF at
  <2>6. \A e \in Section : InKernel(e) /\ Fits(e, "softmax_sum", FALSE, reg[t]) => Fits(e, "reduce", t \in waiting', r)
    BY <2>4, <2>5
  <2> QED BY <2>1, <2>2, <2>3, <2>6, QuietStays
<1>4. CASE rmsnorm_write(t)
  <2>1. \A e \in Section : Fits(e, "rmsnorm_write", FALSE, reg[t]) => Fits(e, "exit", FALSE, reg[t])
    BY LeaveRow
  <2> QED BY <1>4, <2>1, LeaveInv DEF rmsnorm_write, leave
<1>5. CASE softmax_divide(t)
  <2>1. \A e \in Section : Fits(e, "softmax_divide", FALSE, reg[t]) => Fits(e, "exit", FALSE, reg[t])
    BY LeaveRow
  <2> QED BY <1>5, <2>1, LeaveInv DEF softmax_divide, leave
<1> QED BY <1>1, <1>2, <1>3, <1>4, <1>5 DEF row_step

-----------------------------------------------------------------------------
(* The tiled matrix products. *)

\* A thread of a square block.
LEMMA RowAndColumn ==
  ASSUME kernel \in Launches, kernel.name = "sgemm", NEW t \in Threads
  PROVE  t = ty(t) * kernel.tile + tx(t)
<1>1. PICK n \in Nat, d \in Nat \ {0} : n = t /\ d = kernel.tile
  <2>1. t \in Nat
    BY BlockShape
  <2>2. kernel.tile \in Nat \ {0}
    BY LaunchAssumption
  <2> QED BY <2>1, <2>2
<1>2. n = (n \div d) * d + (n % d)
  BY QuotientAndRest
<1> QED BY <1>1, <1>2 DEF tx, ty

\* A thread loads its own element of each tile.
LEMMA SgemmLoadInv == ASSUME BlockInv, NEW t \in Threads, sgemm_load(t) PROVE BlockInv'
<1>1. PICK e \in Section : InSection(e)
  BY DEF BlockInv
<1>2. at(t, "sgemm") /\ reg[t].pos < kernel.K
  BY DEF sgemm_load
<1>3. Fits(e, "sgemm", FALSE, reg[t])
  BY <1>1, <1>2, FitsAt
<1>4. PICK r : r = reg[t]
  OBVIOUS
<1>5. /\ kernel' = kernel /\ waiting' = waiting \cup {t}
      /\ pc' = [pc EXCEPT ![t] = "sgemm_tile"] /\ reg' = [reg EXCEPT ![t] = r]
  BY <1>4 DEF sgemm_load, sync, go
<1>6. e.label = "sgemm" /\ Fits(e, "sgemm_tile", TRUE, r)
  BY <1>2, <1>3, <1>4 DEF Fits, ReduceSection, RowSection, MatrixSection, DecodeSection, SdpaSection, Section, Position, Position, Returns, Reducing
<1>7. ASSUME NEW a \in accesses', a \notin accesses
      PROVE  DOMAIN a = Access /\ Allowed(e.label, a.kind, a.slot, a.thread)
  <2>1. PICK writes : /\ DOMAIN writes = {<<"As", ty(t), tx(t)>>, <<"Bs", ty(t), tx(t)>>}
                      /\ a \in Touched(t, "write", DOMAIN writes)
    BY <1>7, NothingTouched DEF sgemm_load, sync, go, Over, Cell
  <2>2. DOMAIN a = Access /\ a.kind = "write" /\ a.thread = t /\ a.slot \in {<<"As", ty(t), tx(t)>>, <<"Bs", ty(t), tx(t)>>}
    BY <2>1, TouchedFields
  <2>3. t = ty(t) * kernel.tile + tx(t)
    BY <1>1, <1>6, RowAndColumn DEF BlockInv, InSection, InKernel, Labels
  <2> QED BY <1>6, <2>2, <2>3 DEF Allowed, Owns, ReadOnly
<1>8. Fits(e, "sgemm_tile", t \in waiting', r) /\ DOMAIN r = DOMAIN Locals
  <2>1. (t \in waiting') = TRUE
    BY <1>5
  <2> QED BY <1>4, <1>6, <2>1 DEF BlockInv
<1> QED BY <1>1, <1>5, <1>7, <1>8, TouchStays

\* Between the barriers of a tile its elements are only read.
LEMMA SgemmTileInv == ASSUME BlockInv, NEW t \in Threads, sgemm_tile(t) PROVE BlockInv'
<1>1. PICK e \in Section : InSection(e)
  BY DEF BlockInv
<1>2. at(t, "sgemm_tile")
  BY DEF sgemm_tile
<1>3. Fits(e, "sgemm_tile", FALSE, reg[t])
  BY <1>1, <1>2, FitsAt
<1>4. PICK r, x : r = [reg[t] EXCEPT !.acc = x, !.pos = @ + kernel.tile] /\ reg' = [reg EXCEPT ![t] = r]
  BY DEF sgemm_tile, sync, go
<1>5. kernel' = kernel /\ waiting' = waiting \cup {t} /\ pc' = [pc EXCEPT ![t] = "sgemm"]
  BY DEF sgemm_tile, sync, go
<1>6. DOMAIN r = DOMAIN Locals /\ r.pos = reg[t].pos + kernel.tile /\ r.t = reg[t].t
  <2>1. DOMAIN reg[t] = DOMAIN Locals
    BY DEF BlockInv
  <2> QED BY <1>4, <2>1 DEF Locals
<1>7. e.label = "sgemm_tile"
  BY <1>3 DEF Fits, ReduceSection, RowSection, MatrixSection, DecodeSection, SdpaSection, Section, Position, Position, Returns, Reducing
<1>8. kernel.tile \in Nat
  BY <1>1, <1>7, SizesType DEF BlockInv, InSection, InKernel, Labels
<1>9. Fits(e, "sgemm", TRUE, r)
  BY <1>3, <1>6, <1>7, <1>8 DEF Fits, ReduceSection, RowSection, MatrixSection, DecodeSection, SdpaSection, Section, Position
<1>10. ASSUME NEW a \in accesses', a \notin accesses
       PROVE  DOMAIN a = Access /\ Allowed(e.label, a.kind, a.slot, a.thread)
  <2> DEFINE ks == 0..(kernel.tile - 1)
             S  == {<<"As", ty(t), k>> : k \in ks} \cup {<<"Bs", k, tx(t)>> : k \in ks}
  <2>1. a \in Touched(t, "read", S)
    BY <1>10, NothingTouched DEF sgemm_tile, sync, go
  <2>2. DOMAIN a = Access /\ a.kind = "read" /\ a.slot[1] \in {"As", "Bs"}
    BY <2>1, TouchedFields
  <2> QED BY <1>7, <2>2 DEF Allowed, ReadOnly
<1>11. Fits(e, "sgemm", t \in waiting', r)
  <2>1. (t \in waiting') = TRUE
    BY <1>5
  <2> QED BY <1>9, <2>1
<1> QED BY <1>1, <1>4, <1>5, <1>6, <1>10, <1>11, TouchStays

\* All threads leave behind the last tile.
LEMMA SgemmWriteInv == ASSUME BlockInv, NEW t \in Threads, sgemm_write(t) PROVE BlockInv'
<1>1. at(t, "sgemm") /\ reg[t].pos >= kernel.K
  BY DEF sgemm_write
<1>2. \A e \in Section : Fits(e, "sgemm", FALSE, reg[t]) => Fits(e, "exit", FALSE, reg[t])
  BY <1>1 DEF Fits, ReduceSection, RowSection, MatrixSection, DecodeSection, SdpaSection, Section, Position, Position, Returns, Reducing
<1> QED BY <1>1, <1>2, LeaveInv DEF sgemm_write, leave

\* The grid leaves no thread of the Q8_0 kernel outside of C: the columns are
\* a multiple of the lanes, and each block has the next ones.
LEMMA Q8Inside ==
  ASSUME BlockInv, kernel.name = "q8", NEW t \in Threads
  PROVE  q8_inside(t)
<1>1. kernel.lanes \in Nat \ {0} /\ {kernel.M, kernel.N} \subseteq Nat
  BY BlockShape, LaunchAssumption DEF BlockInv
<1>2. kernel.N % kernel.lanes = 0 /\ q8_grid(kernel)
  BY DEF BlockInv, launchable
<1>3. PICK n \in Nat, k \in Nat \ {0} : n = kernel.N /\ k = kernel.lanes
  BY <1>1
<1>4. n \div k \in Nat /\ n = (n \div k) * k
  <2>1. n \div k \in Nat /\ n = (n \div k) * k + (n % k)
    BY QuotientAndRest
  <2> QED BY <1>2, <1>3, <2>1
<1>5. PICK q \in Nat : q = n \div k /\ n = q * k
  BY <1>4
<1>6. kernel.bx \in 0..(q - 1) /\ kernel.by \in 0..(kernel.M - 1)
  BY <1>2, <1>3, <1>5 DEF q8_grid
<1>7. lane(t) \in 0..(k - 1)
  <2>1. t \in Nat
    BY BlockShape DEF BlockInv
  <2> QED BY <1>3, <2>1, QuotientAndRest DEF lane
<1>8. PICK b \in 0..(q - 1), i \in 0..(k - 1) : b = kernel.bx /\ i = lane(t)
  BY <1>6, <1>7
<1>9. b * k + i < q * k
  <2>1. PICK d \in Nat : q = b + 1 + d
    <3>1. q - b - 1 \in Nat /\ q = b + 1 + (q - b - 1)
      BY <1>8
    <3> QED BY <3>1
  <2>2. b \in Nat /\ q * k = b * k + k + d * k
    BY <1>8, <2>1
  <2>3. d * k \in Nat /\ b * k \in Nat
    BY <2>2
  <2> QED BY <1>8, <2>2, <2>3
<1>10. kernel.by < kernel.M
  BY <1>1, <1>6
<1> QED BY <1>3, <1>5, <1>8, <1>9, <1>10 DEF q8_inside, q8_column

\* A thread puts the partial sum of its warp and lane.
LEMMA Q8LocalInv == ASSUME BlockInv, NEW t \in Threads, q8_local(t) PROVE BlockInv'
<1>1. PICK e \in Section : InSection(e)
  BY DEF BlockInv
<1>2. at(t, "q8")
  BY DEF q8_local
<1>3. Fits(e, "q8", FALSE, reg[t])
  BY <1>1, <1>2, FitsAt
<1>4. PICK r : r = reg[t]
  OBVIOUS
<1>9. q8_inside(t)
  <2>1. e.label = "q8"
    BY <1>3 DEF Fits, ReduceSection, RowSection, MatrixSection, DecodeSection, SdpaSection, Section, Position, Returns, Reducing
  <2>2. kernel.name = "q8"
    BY <1>1, <2>1 DEF InSection, InKernel, Labels
  <2> QED BY <2>2, Q8Inside
<1>5. /\ kernel' = kernel /\ waiting' = waiting \cup {t}
      /\ pc' = [pc EXCEPT ![t] = "q8_sum"] /\ reg' = [reg EXCEPT ![t] = r]
  BY <1>4, <1>9 DEF q8_local, sync, go
<1>6. e.label = "q8" /\ Fits(e, "q8_sum", TRUE, r)
  BY <1>3, <1>4 DEF Fits, ReduceSection, RowSection, MatrixSection, DecodeSection, SdpaSection, Section, Position, Position, Returns, Reducing
<1>7. ASSUME NEW a \in accesses', a \notin accesses
      PROVE  DOMAIN a = Access /\ Allowed(e.label, a.kind, a.slot, a.thread)
  <2>1. PICK writes : /\ DOMAIN writes = {<<"partials", warp(t), lane(t)>>}
                      /\ a \in Touched(t, "write", DOMAIN writes)
    BY <1>7, <1>9, NothingTouched DEF q8_local, sync, go, Cell
  <2>2. DOMAIN a = Access /\ a.thread = t /\ a.slot = <<"partials", warp(t), lane(t)>>
    BY <2>1, TouchedFields
  <2>3. t = warp(t) * kernel.lanes + lane(t)
    BY WarpAndLane DEF BlockInv
  <2> QED BY <1>6, <2>2, <2>3 DEF Allowed, Owns, ReadOnly
<1>8. Fits(e, "q8_sum", t \in waiting', r) /\ DOMAIN r = DOMAIN Locals
  <2>1. (t \in waiting') = TRUE
    BY <1>5
  <2> QED BY <1>4, <1>6, <2>1 DEF BlockInv
<1> QED BY <1>1, <1>5, <1>7, <1>8, TouchStays

\* Behind the barrier the partial sums are only read.
LEMMA Q8SumInv == ASSUME BlockInv, NEW t \in Threads, q8_sum(t) PROVE BlockInv'
<1>1. PICK e \in Section : InSection(e)
  BY DEF BlockInv
<1>2. at(t, "q8_sum") /\ kernel' = kernel /\ waiting' = waiting /\ reg' = reg /\ pc' = [pc EXCEPT ![t] = "exit"]
  BY DEF q8_sum
<1>3. Fits(e, "q8_sum", FALSE, reg[t])
  BY <1>1, <1>2, FitsAt
<1>4. e.label = "q8_sum" /\ Fits(e, "exit", FALSE, reg[t])
  BY <1>3 DEF Fits, ReduceSection, RowSection, MatrixSection, DecodeSection, SdpaSection, Section, Position, Position, Returns, Reducing
<1>5. ASSUME NEW a \in accesses', a \notin accesses
      PROVE  DOMAIN a = Access /\ Allowed(e.label, a.kind, a.slot, a.thread)
  <2>1. PICK S : /\ a \in Touched(t, "read", S)
                 /\ \A s \in S : s[1] = "partials"
    BY <1>5 DEF q8_sum
  <2>2. DOMAIN a = Access /\ a.kind = "read" /\ a.slot[1] = "partials"
    BY <2>1, TouchedFields
  <2> QED BY <1>4, <2>2 DEF Allowed, ReadOnly
<1>6. DOMAIN pc = Threads /\ DOMAIN reg[t] = DOMAIN Locals
  BY DEF BlockInv
<1>7. pc'[t] = "exit" /\ DOMAIN pc' = DOMAIN pc /\ \A u \in Threads \ {t} : pc'[u] = pc[u]
  BY <1>2, <1>6
<1>8. Fits(e, pc'[t], t \in waiting', reg'[t]) /\ DOMAIN reg'[t] = DOMAIN Locals
  <2>1. (t \in waiting') = FALSE
    BY <1>2 DEF at
  <2> QED BY <1>2, <1>4, <1>6, <1>7, <2>1
<1> QED BY <1>1, <1>2, <1>5, <1>7, <1>8, StepStays

-----------------------------------------------------------------------------
(* The decode attentions. *)

\* A thread of a decode kernel outside a reduction is in a section that an
\* update begins.
LEMMA DecodeAt ==
  ASSUME kernel \in Launches, NEW e \in Section, InKernel(e),
         NEW k \in {"decode", "decode_update"}, NEW r, Fits(e, k, FALSE, r)
  PROVE  /\ kernel.name = "decode" /\ seq_len \in Int
         /\ r.pos \in Position /\ r.t \in Int
         /\ e.label = "decode_update" /\ DecodeSection(e, k, FALSE, r)
<1>1. r.pos \in Position /\ r.t \in Int /\ e.label = "decode_update" /\ DecodeSection(e, k, FALSE, r)
  BY DEF Fits, ReduceSection, RowSection, MatrixSection, DecodeSection, SdpaSection, Section, Returns, Reducing
<1>2. kernel.name = "decode"
  BY <1>1 DEF InKernel, Labels
<1> QED BY <1>1, <1>2, SizesType

\* The batch kernel leaves an empty sequence with all threads.
LEMMA DecodeEmptyInv == ASSUME BlockInv, NEW t \in Threads, decode_empty(t) PROVE BlockInv'
<1>1. at(t, "decode") /\ kernel.form = "batch" /\ kernel.len <= 0
  BY DEF decode_empty
<1>2. ASSUME NEW e \in Section, InKernel(e), Fits(e, "decode", FALSE, reg[t])
      PROVE  Fits(e, "exit", FALSE, reg[t])
  <2>1. /\ kernel.name = "decode" /\ seq_len \in Int
        /\ reg[t].pos \in Position /\ reg[t].t \in Int
        /\ e.label = "decode_update" /\ DecodeSection(e, "decode", FALSE, reg[t])
    BY <1>2, DecodeAt DEF BlockInv
  <2>2. seq_len <= 0
    <3>1. kernel.len \in Int /\ Len(kernel.table) \in Nat /\ kernel.block_size \in Nat
      BY <2>1, LaunchAssumption DEF BlockInv
    <3>2. PICK a \in Nat, b \in Nat : a = Len(kernel.table) /\ b = kernel.block_size
      BY <3>1
    <3>3. a * b \in Nat
      OBVIOUS
    <3> QED BY <1>1, <3>1, <3>2, <3>3 DEF seq_len
  <2>3. reg[t].pos > e.pos /\ e.pos \in Position
    BY <2>1 DEF DecodeSection, Section
  <2>4. reg[t].pos >= seq_len
    BY <2>1, <2>2, <2>3 DEF Position
  <2>5. DecodeSection(e, "exit", FALSE, reg[t])
    BY <2>1, <2>4 DEF DecodeSection
  <2> QED BY <2>1, <2>5 DEF Fits
<1> QED BY <1>1, <1>2, LeaveInv DEF decode_empty, leave

\* All threads leave behind the last position.
LEMMA DecodeWriteInv == ASSUME BlockInv, NEW t \in Threads, decode_write(t) PROVE BlockInv'
<1>1. at(t, "decode") /\ reg[t].pos >= seq_len
  BY DEF decode_write
<1>2. ASSUME NEW e \in Section, InKernel(e), Fits(e, "decode", FALSE, reg[t])
      PROVE  Fits(e, "exit", FALSE, reg[t])
  <2>1. /\ reg[t].pos \in Position /\ reg[t].t \in Int
        /\ e.label = "decode_update" /\ DecodeSection(e, "decode", FALSE, reg[t])
    BY <1>2, DecodeAt DEF BlockInv
  <2>2. DecodeSection(e, "exit", FALSE, reg[t])
    BY <1>1, <2>1 DEF DecodeSection
  <2> QED BY <2>1, <2>2 DEF Fits
<1> QED BY <1>1, <1>2, LeaveInv DEF decode_write, leave

\* The positions without a block are the same for all threads.
LEMMA DecodeSkipInv == ASSUME BlockInv, NEW t \in Threads, decode_skip(t) PROVE BlockInv'
<1>1. at(t, "decode") /\ missing(reg[t].pos)
  BY DEF decode_skip
<1>2. PICK r : r = [reg[t] EXCEPT !.pos = @ + 1]
  OBVIOUS
<1>3. /\ kernel' = kernel /\ waiting' = waiting /\ accesses' = accesses
      /\ pc' = [pc EXCEPT ![t] = "decode"] /\ reg' = [reg EXCEPT ![t] = r]
  BY <1>2, NothingTouched DEF decode_skip, run, go
<1>4. DOMAIN r = DOMAIN Locals /\ r.pos = reg[t].pos + 1 /\ r.t = reg[t].t
  <2>1. DOMAIN reg[t] = DOMAIN Locals
    BY DEF BlockInv
  <2> QED BY <1>2, <2>1 DEF Locals
<1>5. ASSUME NEW e \in Section, InKernel(e), Fits(e, "decode", FALSE, reg[t])
      PROVE  Fits(e, "decode", t \in waiting', r)
  <2>1. /\ reg[t].pos \in Position /\ reg[t].t \in Int
        /\ e.label = "decode_update" /\ DecodeSection(e, "decode", FALSE, reg[t])
    BY <1>5, DecodeAt DEF BlockInv
  <2>2. /\ e.pos \in Int /\ reg[t].pos > e.pos /\ reg[t].t = e.t
        /\ \A p \in (e.pos + 1)..(reg[t].pos - 1) : missing(p)
    BY <2>1 DEF DecodeSection, Section, Position
  <2>3. \A p \in (e.pos + 1)..(r.pos - 1) : p = reg[t].pos \/ p \in (e.pos + 1)..(reg[t].pos - 1)
    BY <1>4, <2>1, <2>2 DEF Position
  <2>4. \A p \in (e.pos + 1)..(r.pos - 1) : missing(p)
    BY <1>1, <2>2, <2>3
  <2>5. r.pos > e.pos /\ r.t = e.t /\ r.pos \in Position /\ r.t \in Int
    BY <1>4, <2>1, <2>2 DEF Position
  <2>6. DecodeSection(e, "decode", FALSE, r)
    BY <2>1, <2>4, <2>5 DEF DecodeSection
  <2>7. (t \in waiting') = FALSE
    BY <1>1, <1>3 DEF at
  <2> QED BY <2>5, <2>6, <2>7 DEF Fits
<1> QED BY <1>1, <1>3, <1>4, <1>5, QuietStays

\* All threads reduce at the same position.
LEMMA DecodeScoreInv == ASSUME BlockInv, NEW t \in Threads, decode_score(t) PROVE BlockInv'
<1>1. PICK v, r : r = Called(t, "sum", v, "decode_update") /\ reg' = [reg EXCEPT ![t] = r]
  BY DEF decode_score, block_reduce, run, go, Called
<1>2. /\ at(t, "decode") /\ reg[t].pos < seq_len /\ ~missing(reg[t].pos)
      /\ kernel' = kernel /\ waiting' = waiting /\ accesses' = accesses
      /\ pc' = [pc EXCEPT ![t] = "reduce"]
  BY NothingTouched DEF decode_score, block_reduce, run, go
<1>3. DOMAIN r = DOMAIN Locals /\ r.pos = reg[t].pos /\ r.t = reg[t].t /\ r.op = "sum" /\ r.ret = "decode_update"
  BY <1>1, CalledFields
<1>4. ASSUME NEW e \in Section, InKernel(e), Fits(e, "decode", FALSE, reg[t])
      PROVE  Fits(e, "reduce", t \in waiting', r)
  <2>1. /\ reg[t].pos \in Position /\ reg[t].t \in Int
        /\ e.label = "decode_update" /\ DecodeSection(e, "decode", FALSE, reg[t])
    BY <1>4, DecodeAt DEF BlockInv
  <2>2. Reducing("decode_update", "reduce", FALSE, r)
    BY <1>3 DEF Reducing, Reductions
  <2>3. DecodeSection(e, "reduce", FALSE, r)
    BY <1>2, <1>3, <2>1, <2>2 DEF DecodeSection
  <2>4. (t \in waiting') = FALSE
    BY <1>2 DEF at
  <2>5. r.pos \in Position /\ r.t \in Int
    BY <1>3, <2>1
  <2> QED BY <2>3, <2>4, <2>5 DEF Fits
<1> QED BY <1>1, <1>2, <1>3, <1>4, QuietStays

\* The update ends one position and begins the search for the next.
LEMMA DecodeUpdateInv == ASSUME BlockInv, NEW t \in Threads, decode_update(t) PROVE BlockInv'
<1>1. at(t, "decode_update")
  BY DEF decode_update
<1>2. PICK r, x, y, z : /\ r = [reg[t] EXCEPT !.acc = x, !.l = y, !.m = z, !.pos = @ + 1]
                        /\ reg' = [reg EXCEPT ![t] = r]
  BY DEF decode_update, run, go
<1>3. /\ kernel' = kernel /\ waiting' = waiting /\ accesses' = accesses
      /\ pc' = [pc EXCEPT ![t] = "decode"]
  BY NothingTouched DEF decode_update, run, go
<1>4. DOMAIN r = DOMAIN Locals /\ r.pos = reg[t].pos + 1 /\ r.t = reg[t].t
  <2>1. DOMAIN reg[t] = DOMAIN Locals
    BY DEF BlockInv
  <2> QED BY <1>2, <2>1 DEF Locals
<1>5. ASSUME NEW e \in Section, InKernel(e), Fits(e, "decode_update", FALSE, reg[t])
      PROVE  Fits(e, "decode", t \in waiting', r)
  <2>1. /\ reg[t].pos \in Position /\ reg[t].t \in Int
        /\ e.label = "decode_update" /\ DecodeSection(e, "decode_update", FALSE, reg[t])
    BY <1>5, DecodeAt DEF BlockInv
  <2>2. e.pos \in Int /\ reg[t].pos = e.pos /\ reg[t].t = e.t
    BY <2>1 DEF DecodeSection, Section, Position, Reducing
  <2>3. r.pos > e.pos /\ r.t = e.t /\ r.pos \in Position /\ r.t \in Int
    BY <1>4, <2>1, <2>2 DEF Position
  <2>4. \A p \in (e.pos + 1)..(r.pos - 1) : missing(p)
    BY <1>4, <2>2
  <2>5. DecodeSection(e, "decode", FALSE, r)
    BY <2>1, <2>3, <2>4 DEF DecodeSection
  <2>6. (t \in waiting') = FALSE
    BY <1>1, <1>3 DEF at
  <2> QED BY <2>3, <2>5, <2>6 DEF Fits
<1> QED BY <1>1, <1>2, <1>3, <1>4, <1>5, QuietStays

-----------------------------------------------------------------------------
(* The tiled attention. *)

\* A thread of the attention kernel outside a reduction.
LEMMA SdpaAt ==
  ASSUME kernel \in Launches, NEW e \in Section, InKernel(e),
         NEW k \in {"sdpa", "sdpa_load", "sdpa_score", "sdpa_keep", "sdpa_combine"}, NEW r, Fits(e, k, FALSE, r)
  PROVE  /\ kernel.name = "sdpa" /\ kernel.tile \in Nat /\ BLOCK \in Nat \ {0}
         /\ e.pos \in Position /\ e.t \in Int /\ r.pos = e.pos /\ r.t \in Int
         /\ e.label = IF k = "sdpa_score" THEN "sdpa_keep" ELSE k
         /\ k = "sdpa_score" => r.t = e.t + 1
         /\ k = "sdpa_keep" => r.t = e.t
<1>1. /\ e.pos \in Position /\ e.t \in Int /\ r.pos = e.pos /\ r.t \in Int
      /\ e.label = IF k = "sdpa_score" THEN "sdpa_keep" ELSE k
      /\ k = "sdpa_score" => r.t = e.t + 1
      /\ k = "sdpa_keep" => r.t = e.t
  BY DEF Fits, ReduceSection, RowSection, MatrixSection, DecodeSection, SdpaSection, Section, Position, Returns, Reducing
<1>2. kernel.name = "sdpa"
  BY <1>1 DEF InKernel, Labels
<1> QED BY <1>1, <1>2, SizesType, BlockShape

\* A strided index is its thread's.
LEMMA StridedOwner ==
  ASSUME NEW t, NEW n, NEW i \in Strided(t, n)
  PROVE  t = i % BLOCK
BY DEF Strided

\* A thread loads its own elements of the query.
LEMMA SdpaQueryInv == ASSUME BlockInv, NEW t \in Threads, sdpa_query(t) PROVE BlockInv'
<1>1. PICK e \in Section : InSection(e)
  BY DEF BlockInv
<1>2. at(t, "sdpa")
  BY DEF sdpa_query
<1>3. PICK r : r = reg[t]
  OBVIOUS
<1>4. /\ kernel' = kernel /\ waiting' = waiting \cup {t}
      /\ pc' = [pc EXCEPT ![t] = "sdpa_load"] /\ reg' = [reg EXCEPT ![t] = r]
  BY <1>3 DEF sdpa_query, sync, go
<1>5. Fits(e, "sdpa", FALSE, r)
  BY <1>1, <1>2, <1>3, FitsAt
<1>6. e.label = "sdpa" /\ r.pos = e.pos /\ r.pos \in Position /\ r.t \in Int
  BY <1>1, <1>5, SdpaAt DEF BlockInv, InSection
<1>7. Fits(e, "sdpa_load", t \in waiting', r)
  <2>1. SdpaSection(e, "sdpa_load", TRUE, r)
    BY <1>6 DEF SdpaSection
  <2>2. (t \in waiting') = TRUE
    BY <1>4
  <2> QED BY <1>6, <2>1, <2>2 DEF Fits
<1>8. ASSUME NEW a \in accesses', a \notin accesses
      PROVE  DOMAIN a = Access /\ Allowed(e.label, a.kind, a.slot, a.thread)
  <2> DEFINE D == Strided(t, kernel.head_dim)
  <2>1. a \in Touched(t, "write", {<<"q_s", d>> : d \in D})
    BY <1>8, NothingTouched DEF sdpa_query, sync, go
  <2>2. DOMAIN a = Access /\ a.thread = t /\ a.slot \in {<<"q_s", d>> : d \in D}
    BY <2>1, TouchedFields
  <2>3. PICK d \in D : a.slot = <<"q_s", d>>
    BY <2>2
  <2>4. t = d % BLOCK
    BY StridedOwner
  <2> QED BY <1>6, <2>2, <2>3, <2>4 DEF Allowed, Owns, ReadOnly
<1>9. DOMAIN r = DOMAIN Locals
  BY <1>3 DEF BlockInv
<1> QED BY <1>1, <1>4, <1>7, <1>8, <1>9, TouchStays

\* A thread loads its own elements of a tile of keys and values.
LEMMA SdpaLoadInv == ASSUME BlockInv, NEW t \in Threads, sdpa_load(t) PROVE BlockInv'
<1>1. PICK e \in Section : InSection(e)
  BY DEF BlockInv
<1>2. at(t, "sdpa_load") /\ reg[t].pos < valid_keys
  BY DEF sdpa_load
<1>3. PICK r : r = [reg[t] EXCEPT !.t = 0, !.tile_m = Lowest]
  OBVIOUS
<1>4. /\ kernel' = kernel /\ waiting' = waiting \cup {t}
      /\ pc' = [pc EXCEPT ![t] = "sdpa_score"] /\ reg' = [reg EXCEPT ![t] = r]
  BY <1>3 DEF sdpa_load, sync, go
<1>5. DOMAIN r = DOMAIN Locals /\ r.pos = reg[t].pos /\ r.t = 0
  <2>1. DOMAIN reg[t] = DOMAIN Locals
    BY DEF BlockInv
  <2> QED BY <1>3, <2>1 DEF Locals
<1>6. Fits(e, "sdpa_load", FALSE, reg[t])
  BY <1>1, <1>2, FitsAt
<1>7. e.label = "sdpa_load" /\ reg[t].pos = e.pos /\ e.pos \in Position
  BY <1>1, <1>6, SdpaAt DEF BlockInv, InSection
<1>8. Fits(e, "sdpa_score", t \in waiting', r)
  <2>1. SdpaSection(e, "sdpa_score", TRUE, r)
    BY <1>2, <1>5, <1>7 DEF SdpaSection
  <2>2. (t \in waiting') = TRUE
    BY <1>4
  <2>3. r.pos \in Position /\ r.t \in Int
    BY <1>5, <1>7
  <2> QED BY <2>1, <2>2, <2>3 DEF Fits
<1>9. ASSUME NEW a \in accesses', a \notin accesses
      PROVE  DOMAIN a = Access /\ Allowed(e.label, a.kind, a.slot, a.thread)
  <2> DEFINE idx == Strided(t, tile_count(t) * kernel.head_dim)
             S == {<<"k_s", i>> : i \in idx} \cup {<<"v_s", i>> : i \in idx}
  <2>1. a \in Touched(t, "write", S)
    BY <1>9, NothingTouched DEF sdpa_load, sync, go, Over
  <2>2. DOMAIN a = Access /\ a.thread = t /\ a.slot \in S
    BY <2>1, TouchedFields
  <2>3. PICK i \in idx : a.slot \in {<<"k_s", i>>, <<"v_s", i>>}
    BY <2>2
  <2>4. t = i % BLOCK
    BY StridedOwner
  <2> QED BY <1>7, <2>2, <2>3, <2>4 DEF Allowed, Owns, ReadOnly
<1> QED BY <1>1, <1>4, <1>5, <1>8, <1>9, TouchStays

\* All threads reduce for the same key; the query and the keys are only read.
LEMMA SdpaScoreInv == ASSUME BlockInv, NEW t \in Threads, sdpa_score(t) PROVE BlockInv'
<1>1. PICK e \in Section : InSection(e)
  BY DEF BlockInv
<1>2. PICK v, r : r = Called(t, "sum", v, "sdpa_keep") /\ reg' = [reg EXCEPT ![t] = r]
  BY DEF sdpa_score, block_reduce, run, go, Called
<1>3. /\ at(t, "sdpa_score") /\ reg[t].t < tile_count(t)
      /\ kernel' = kernel /\ waiting' = waiting /\ pc' = [pc EXCEPT ![t] = "reduce"]
  BY DEF sdpa_score, block_reduce, run, go
<1>4. DOMAIN r = DOMAIN Locals /\ r.pos = reg[t].pos /\ r.t = reg[t].t /\ r.op = "sum" /\ r.ret = "sdpa_keep"
  BY <1>2, CalledFields
<1>5. Fits(e, "sdpa_score", FALSE, reg[t])
  BY <1>1, <1>3, FitsAt
<1>6. e.label = "sdpa_keep" /\ reg[t].pos = e.pos /\ e.pos \in Position /\ reg[t].t = e.t + 1 /\ reg[t].t \in Int
  BY <1>1, <1>5, SdpaAt DEF BlockInv, InSection
<1>7. r.t < KeysFrom(e.pos)
  BY <1>3, <1>4, <1>6 DEF tile_count, KeysFrom
<1>8. Fits(e, "reduce", t \in waiting', r)
  <2>1. Reducing(e.label, "reduce", FALSE, r)
    BY <1>4, <1>6 DEF Reducing, Reductions
  <2>2. SdpaSection(e, "reduce", FALSE, r)
    BY <1>4, <1>6, <1>7, <2>1 DEF SdpaSection
  <2>3. (t \in waiting') = FALSE
    BY <1>3 DEF at
  <2>4. r.pos \in Position /\ r.t \in Int
    BY <1>4, <1>6
  <2> QED BY <2>2, <2>3, <2>4 DEF Fits
<1>9. ASSUME NEW a \in accesses', a \notin accesses
      PROVE  DOMAIN a = Access /\ Allowed(e.label, a.kind, a.slot, a.thread)
  <2> DEFINE D == Strided(t, kernel.head_dim)
             S == {<<"q_s", d>> : d \in D} \cup {<<"k_s", reg[t].t * kernel.head_dim + d>> : d \in D}
  <2>1. a \in Touched(t, "read", S)
    BY <1>9, NothingTouched DEF sdpa_score, block_reduce, run, go
  <2>2. DOMAIN a = Access /\ a.kind = "read" /\ a.slot \in S
    BY <2>1, TouchedFields
  <2>3. a.slot[1] \in {"q_s", "k_s"}
    BY <2>2
  <2> QED BY <1>6, <2>2, <2>3 DEF Allowed, ReadOnly
<1> QED BY <1>1, <1>2, <1>3, <1>4, <1>8, <1>9, TouchStays

\* Thread 0 alone keeps the scores.
LEMMA SdpaKeepInv == ASSUME BlockInv, NEW t \in Threads, sdpa_keep(t) PROVE BlockInv'
<1>1. PICK e \in Section : InSection(e)
  BY DEF BlockInv
<1>2. PICK r, x : r = [reg[t] EXCEPT !.tile_m = x, !.t = @ + 1] /\ reg' = [reg EXCEPT ![t] = r]
  BY DEF sdpa_keep, run, go
<1>3. /\ at(t, "sdpa_keep")
      /\ kernel' = kernel /\ waiting' = waiting /\ pc' = [pc EXCEPT ![t] = "sdpa_score"]
  BY DEF sdpa_keep, run, go
<1>4. DOMAIN r = DOMAIN Locals /\ r.pos = reg[t].pos /\ r.t = reg[t].t + 1
  <2>1. DOMAIN reg[t] = DOMAIN Locals
    BY DEF BlockInv
  <2> QED BY <1>2, <2>1 DEF Locals
<1>5. Fits(e, "sdpa_keep", FALSE, reg[t])
  BY <1>1, <1>3, FitsAt
<1>6. e.label = "sdpa_keep" /\ reg[t].pos = e.pos /\ e.pos \in Position /\ reg[t].t = e.t /\ e.t \in Int
  BY <1>1, <1>5, SdpaAt DEF BlockInv, InSection
<1>7. Fits(e, "sdpa_score", t \in waiting', r)
  <2>1. SdpaSection(e, "sdpa_score", FALSE, r)
    BY <1>4, <1>6 DEF SdpaSection
  <2>2. (t \in waiting') = FALSE
    BY <1>3 DEF at
  <2>3. r.pos \in Position /\ r.t \in Int
    BY <1>4, <1>6
  <2> QED BY <2>1, <2>2, <2>3 DEF Fits
<1>8. ASSUME NEW a \in accesses', a \notin accesses
      PROVE  DOMAIN a = Access /\ Allowed(e.label, a.kind, a.slot, a.thread)
  <2> DEFINE writes == IF t = 0 THEN Cell(<<"scores", reg[t].t>>, reg[t].v) ELSE NoWrites
  <2>1. a \in Touched(t, "write", DOMAIN writes)
    BY <1>8, NothingTouched DEF sdpa_keep, run, go
  <2>2. DOMAIN a = Access /\ a.thread = t /\ a.slot \in DOMAIN writes
    BY <2>1, TouchedFields
  <2>3. a.slot = <<"scores", reg[t].t>> /\ t = 0
    BY <2>2 DEF NoWrites, Cell
  <2> QED BY <1>6, <2>2, <2>3 DEF Allowed, Owns, ReadOnly
<1> QED BY <1>1, <1>2, <1>3, <1>4, <1>7, <1>8, TouchStays

\* All threads wait behind the last key of a tile.
LEMMA SdpaScoredInv == ASSUME BlockInv, NEW t \in Threads, sdpa_scored(t) PROVE BlockInv'
<1>1. at(t, "sdpa_score") /\ reg[t].t >= tile_count(t)
  BY DEF sdpa_scored
<1>2. PICK r : r = reg[t]
  OBVIOUS
<1>3. /\ kernel' = kernel /\ waiting' = waiting \cup {t} /\ accesses' = accesses
      /\ pc' = [pc EXCEPT ![t] = "sdpa_combine"] /\ reg' = [reg EXCEPT ![t] = r]
  BY <1>2, NothingTouched DEF sdpa_scored, sync, go
<1>4. ASSUME NEW e \in Section, InKernel(e), Fits(e, "sdpa_score", FALSE, reg[t])
      PROVE  Fits(e, "sdpa_combine", t \in waiting', r)
  <2>1. e.label = "sdpa_keep" /\ r.pos = e.pos /\ e.pos \in Position /\ r.t = e.t + 1 /\ r.t \in Int
    BY <1>2, <1>4, SdpaAt DEF BlockInv
  <2>2. r.t >= KeysFrom(e.pos)
    BY <1>1, <1>2, <2>1 DEF tile_count, KeysFrom
  <2>3. SdpaSection(e, "sdpa_combine", TRUE, r)
    BY <2>1, <2>2 DEF SdpaSection
  <2>4. (t \in waiting') = TRUE
    BY <1>3
  <2> QED BY <2>1, <2>3, <2>4 DEF Fits
<1>5. DOMAIN r = DOMAIN Locals
  BY <1>2 DEF BlockInv
<1> QED BY <1>1, <1>3, <1>4, <1>5, QuietStays

\* While a tile is combined its scores and values are only read.
LEMMA SdpaCombineInv == ASSUME BlockInv, NEW t \in Threads, sdpa_combine(t) PROVE BlockInv'
<1>1. PICK e \in Section : InSection(e)
  BY DEF BlockInv
<1>2. PICK r, x, y, z : /\ r = [reg[t] EXCEPT !.acc = x, !.l = y, !.m = z, !.pos = @ + kernel.tile]
                        /\ reg' = [reg EXCEPT ![t] = r]
  BY DEF sdpa_combine, sync, go, combined
<1>3. /\ at(t, "sdpa_combine")
      /\ kernel' = kernel /\ waiting' = waiting \cup {t} /\ pc' = [pc EXCEPT ![t] = "sdpa_load"]
  BY DEF sdpa_combine, sync, go
<1>4. DOMAIN r = DOMAIN Locals /\ r.pos = reg[t].pos + kernel.tile /\ r.t = reg[t].t
  <2>1. DOMAIN reg[t] = DOMAIN Locals
    BY DEF BlockInv
  <2> QED BY <1>2, <2>1 DEF Locals
<1>5. Fits(e, "sdpa_combine", FALSE, reg[t])
  BY <1>1, <1>3, FitsAt
<1>6. e.label = "sdpa_combine" /\ reg[t].pos = e.pos /\ e.pos \in Position /\ reg[t].t \in Int /\ kernel.tile \in Nat
  BY <1>1, <1>5, SdpaAt DEF BlockInv, InSection
<1>7. Fits(e, "sdpa_load", t \in waiting', r)
  <2>1. SdpaSection(e, "sdpa_load", TRUE, r)
    BY <1>4, <1>6 DEF SdpaSection
  <2>2. (t \in waiting') = TRUE
    BY <1>3
  <2>3. r.pos \in Position /\ r.t \in Int
    BY <1>4, <1>6 DEF Position
  <2> QED BY <2>1, <2>2, <2>3 DEF Fits
<1>8. ASSUME NEW a \in accesses', a \notin accesses
      PROVE  DOMAIN a = Access /\ Allowed(e.label, a.kind, a.slot, a.thread)
  <2>1. a \in Touched(t, "read", combined(t).reads)
    BY <1>8, NothingTouched DEF sdpa_combine, sync, go
  <2>2. DOMAIN a = Access /\ a.kind = "read" /\ a.slot \in combined(t).reads
    BY <2>1, TouchedFields
  <2> DEFINE keys == 0..(tile_count(t) - 1)
  <2>3. a.slot \in {<<"scores", i>> : i \in keys} \cup {<<"v_s", i * kernel.head_dim + t>> : i \in keys}
    BY <2>2 DEF combined
  <2>4. a.slot[1] \in {"scores", "v_s"}
    BY <2>3
  <2> QED BY <1>6, <2>2, <2>4 DEF Allowed, ReadOnly
<1> QED BY <1>1, <1>2, <1>3, <1>4, <1>7, <1>8, TouchStays

\* All threads leave behind the last tile.
LEMMA SdpaWriteInv == ASSUME BlockInv, NEW t \in Threads, sdpa_write(t) PROVE BlockInv'
<1>1. at(t, "sdpa_load") /\ reg[t].pos >= valid_keys
  BY DEF sdpa_write
<1>2. ASSUME NEW e \in Section, InKernel(e), Fits(e, "sdpa_load", FALSE, reg[t])
      PROVE  Fits(e, "exit", FALSE, reg[t])
  <2>1. e.label = "sdpa_load" /\ reg[t].pos = e.pos /\ e.pos \in Position /\ reg[t].t \in Int
    BY <1>2, SdpaAt DEF BlockInv
  <2>2. SdpaSection(e, "exit", FALSE, reg[t])
    BY <1>1, <2>1 DEF SdpaSection
  <2> QED BY <2>1, <2>2 DEF Fits
<1> QED BY <1>1, <1>2, LeaveInv DEF sdpa_write, leave

-----------------------------------------------------------------------------
(* The invariant. *)

\* Every step of a block, alone or of a warp or of all, keeps the invariant.
LEMMA NextInv == ASSUME BlockInv, [BlockNext]_blockVars PROVE BlockInv'
<1>1. CASE syncthreads
  BY <1>1, BarrierInv
<1>2. CASE reduce_partials
  <2>1. shuffle(0, "reduce_partials", "put_result")
    BY <1>2 DEF reduce_partials
  <2> QED BY <2>1, ShuffleInv
<1>3. ASSUME NEW w \in 0..(kernel.warps - 1), warp_reduce(w) PROVE BlockInv'
  <2>1. shuffle(w, "reduce", "put_partial")
    BY <1>3 DEF warp_reduce
  <2> QED BY <2>1, ShuffleInv
<1>4. ASSUME NEW t \in Threads, reduce_step(t) PROVE BlockInv'
  BY <1>4, PutPartialInv, GetPartialInv, PutResultInv, GetResultInv DEF reduce_step
<1>5. ASSUME NEW t \in Threads, matrix_step(t) PROVE BlockInv'
  BY <1>5, SgemmLoadInv, SgemmTileInv, SgemmWriteInv, Q8LocalInv, Q8SumInv DEF matrix_step
<1>6. ASSUME NEW t \in Threads, decode_step(t) PROVE BlockInv'
  BY <1>6, DecodeEmptyInv, DecodeSkipInv, DecodeScoreInv, DecodeUpdateInv, DecodeWriteInv DEF decode_step
<1>7. ASSUME NEW t \in Threads, sdpa_step(t) PROVE BlockInv'
  BY <1>7, SdpaQueryInv, SdpaLoadInv, SdpaScoreInv, SdpaKeepInv, SdpaScoredInv, SdpaCombineInv, SdpaWriteInv
     DEF sdpa_step
<1>8. CASE UNCHANGED blockVars
  <2>1. kernel' = kernel /\ pc' = pc /\ waiting' = waiting /\ reg' = reg /\ accesses' = accesses
    BY <1>8 DEF blockVars
  <2>2. PICK e \in Section : InSection(e)
    BY DEF BlockInv
  <2>3. Threads' = Threads
    BY <2>1 DEF Threads, BLOCK
  <2>4. ASSUME NEW t \in Threads PROVE Fits(e, pc[t], t \in waiting, reg[t])'
    BY <2>1, <2>2, FitsStays DEF InSection
  <2>5. AccessesFit(e.label)'
    <3>1. ASSUME NEW a \in accesses PROVE DOMAIN a = Access /\ Allowed(e.label, a.kind, a.slot, a.thread)'
      BY <2>1, <2>2, AllowedStays DEF InSection, AccessesFit
    <3> QED BY <2>1, <3>1 DEF AccessesFit
  <2>6. InSection(e)'
    BY <2>1, <2>2, <2>3, <2>4, <2>5 DEF InSection, InKernel
  <2> QED BY <2>1, <2>3, <2>6 DEF BlockInv
<1>9. CASE block_done
  BY <1>8, <1>9 DEF block_done
<1> QED BY <1>1, <1>2, <1>3, <1>4, <1>5, <1>6, <1>7, <1>8, <1>9, RowInv DEF BlockNext

\* All threads of a block are always in one section, whatever the number of
\* warps and lanes, and touch only the shared slots that it allows them.
THEOREM BlockInvariant == BlockSpec => []BlockInv
<1>1. BlockInit => BlockInv
  BY InitInv
<1>2. BlockInv /\ [BlockNext]_blockVars => BlockInv'
  BY NextInv
<1> QED BY <1>1, <1>2, PTL DEF BlockSpec

\* No barrier is missing and none diverges, in any kernel that shares memory:
\* two threads never touch a slot, one of them to write it, without a barrier
\* or a shuffle between, and a thread that waits is met by all others.
THEOREM BlockSafeAlways == BlockSpec => []BlockSafe
<1>1. BlockInv => BlockSafe
  BY InvSafe
<1> QED BY <1>1, BlockInvariant, PTL
=============================================================================
