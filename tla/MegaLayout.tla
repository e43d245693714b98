----------------------------- MODULE MegaLayout -----------------------------
(***************************************************************************)
(* The symmetric buffer of MegaMoE (layout/mega_moe.cuh): one allocation   *)
(* that a SymmBuffer makes and later SymmBuffers of other shapes share as  *)
(* views of it (mega/__init__.py, apis/mega_moe.hpp).  All ranks compute   *)
(* the same layout.  A view lays its regions out anew behind the protocol  *)
(* words and the staging area that peers write; views are used serially,   *)
(* but a rank may begin the round of one view while a peer still reduces   *)
(* in another.                                                             *)
(***************************************************************************)
EXTENDS Integers, Sequences, FiniteSets

CONSTANTS R,         \* num_ranks
          Shapes,    \* bound: the shapes that are tried
          MaxViews,  \* bound: SymmBuffers of one allocation
          Counts     \* bound: tokens of an expert, where rows are compared

ASSUME LayoutAssumption ==
  /\ \E e \in 0 .. 6 : R = 2 ^ e
  /\ Shapes \subseteq [experts : Nat, capacity : Nat, topk : Nat,
                       hidden : Nat, intermediate : Nat]
  /\ MaxViews \in Nat \ {0} /\ Counts \subseteq Nat

VARIABLES
  owner,      \* the shape the allocation was made for: staging_config
  views,      \* the SymmBuffers that share it: shape |-> layout
  allocated   \* bytes of the allocation

layoutVars == <<owner, views, allocated>>

None == [experts |-> 0, capacity |-> 0, topk |-> 0, hidden |-> 0, intermediate |-> 0]
KNumMaxRanks == 64
KNumMaxExperts == 2048
KNumMaxCopyBlocks == 2 ^ 23
KNumPartitions == 3
KRowAlignment == 4
KTokenAlignment == 16
KMaxInt == 2147483647

DivCeil(a, b) == (a + b - 1) \div b

\* Mutant: rounds down.
AlignDown(x, a) == (x \div a) * a

Align(x, a) == DivCeil(x, a) * a

\* The first scale row of an expert behind this many rows and experts.
RowOffset(rows, experts) == Align(rows, KRowAlignment) + experts * KRowAlignment

\* MegaMoEStaging::for_shape: one bank each of scales, counts and tokens.
ForShape(s) == [scales |-> Align(R * s.capacity * (s.hidden \div 64) * 2, 256),
                counts |-> Align(s.experts * 4, 256),
                tokens |-> Align(s.experts * s.capacity * 4, 256)]

Groups(s) == s.experts \div R
Compact(s) == R * s.capacity * (IF s.topk < Groups(s) THEN s.topk ELSE Groups(s))
PoolBlocks(s) == Groups(s) * DivCeil(R * s.capacity, 16)

Region(name, bytes, alignment) == <<name, bytes, alignment>>

\* MegaMoESignals, the part of the buffer that is the same for all shapes.
Signals ==
  << Region("scatter", 80, 4), Region("dispatch_retire", 16, 16),
     Region("dispatch_arrivals", 2 * KNumMaxRanks * 4, 128),
     Region("dispatch_counts", 2 * KNumMaxExperts * 4, 256),
     Region("preprocess_ready", (1 + KNumMaxExperts * KNumPartitions) * 4, 256) >>

\* Mutant: as many flags as this view has blocks.
CopyReadyOfView(s, staging) == PoolBlocks(s) * 4

CopyReady(s, staging) == (staging.tokens \div 64) * 4

\* The regions MegaMoEBuffer allocates one behind the other.
Regions(s, staging) ==
  LET packed == Compact(s) * (s.hidden \div 2)
      scaleRows == RowOffset(Compact(s), Groups(s))
  IN  Signals \o
  << Region("copy_ready", CopyReady(s, staging), 256),
     Region("staging_scales0", staging.scales, 256), Region("staging_scales1", staging.scales, 256),
     Region("staging_counts0", staging.counts, 256), Region("staging_counts1", staging.counts, 256),
     Region("staging_tokens0", staging.tokens, 256), Region("staging_tokens1", staging.tokens, 256),
     Region("dispatch_fp4", s.capacity * (s.hidden \div 2), 16),
     Region("expert_base", (Groups(s) + 1) * 4, 256),
     Region("expert_rank_prefix", Groups(s) * R * 4, 256),
     Region("grouped_layout", ((1 + PoolBlocks(s)) * 4 + Groups(s)) * 4, 256),
     Region("local_fp4", packed, 256),
     Region("local_sfa", scaleRows * (s.hidden \div 64) * 2, 256),
     Region("scatter_storage", s.topk * s.capacity * s.hidden * 2, 256),
     Region("src_info", Compact(s) * 12, 256),
     Region("l2_acts", Compact(s) * (s.intermediate \div 2), 256),
     Region("l2_acts_sf", (s.intermediate \div 64) * Compact(s) * 2, 256),
     Region("topk_idx", s.capacity * s.topk * 8, 256),
     Region("topk_weights", s.capacity * s.topk * 4, 256) >>

\* Where each region begins; the private part begins at a multiple of 256.
Place(regions) ==
  LET offset[i \in 1 .. Len(regions)] ==
        IF i = 1 THEN 0
        ELSE Align(offset[i - 1] + regions[i - 1][2],
                   IF i = Len(Signals) + 1 THEN 256 ELSE regions[i][3])
      index(name) == CHOOSE i \in 1 .. Len(regions) : regions[i][1] = name
  IN  [name \in {regions[i][1] : i \in 1 .. Len(regions)} |->
        [offset |-> offset[index(name)], bytes |-> regions[index(name)][2]]]

Layout(s, staging) == Place(Regions(s, staging))
Bytes(layout) == LET last == layout["topk_weights"] IN Align(last.offset + last.bytes, 256)

\* The staging a view of shape s works with, once it is accepted.
Staging(s) == ForShape(owner)

\* The checks of get_staging_capacity on a shape ...
Valid(s) ==
  /\ s.experts \in 1 .. KNumMaxExperts /\ s.experts % R = 0
  /\ s.capacity > 0 /\ s.capacity % KTokenAlignment = 0 /\ s.topk \in 1 .. 32
  /\ s.hidden >= 1024 /\ s.hidden % 512 = 0
  /\ s.intermediate > 0 /\ s.intermediate % 64 = 0
  /\ s.experts * (s.capacity \div 16) <= KNumMaxCopyBlocks
  /\ R * s.capacity * s.topk <= KMaxInt

\* ... and against the staging of the allocation it is a view of.
FitsStaging(s) ==
  LET required == ForShape(s)
      owned == ForShape(owner)
  IN  /\ required.scales <= owned.scales
      /\ required.counts <= owned.counts
      /\ required.tokens <= owned.tokens

LayoutInit == owner = None /\ views = << >> /\ allocated = 0

\* SymmBuffer(...) without base.
Allocate(s) ==
  /\ owner = None
  /\ Valid(s)
  /\ owner' = s
  /\ views' = [v \in {s} |-> Layout(s, ForShape(s))]
  /\ allocated' = Bytes(views'[s])

\* sym_buffer_size <= base.numel(), and the view.
AddView(s, layout) ==
  /\ Bytes(layout) <= allocated
  /\ views' = [v \in DOMAIN views \cup {s} |-> IF v = s THEN layout ELSE views[v]]

\* Mutant: the staging of the allocation is not compared.
ShareUnchecked(s) ==
  /\ owner # None /\ Cardinality(DOMAIN views) < MaxViews
  /\ Valid(s) /\ s \notin DOMAIN views
  /\ AddView(s, Layout(s, Staging(s)))
  /\ UNCHANGED <<owner, allocated>>

\* SymmBuffer(..., base): rejected unless it fits.
Share(s) ==
  /\ owner # None /\ Cardinality(DOMAIN views) < MaxViews
  /\ Valid(s) /\ FitsStaging(s) /\ s \notin DOMAIN views
  /\ AddView(s, Layout(s, Staging(s)))
  /\ UNCHANGED <<owner, allocated>>

\* No shape fits any more, or as many views exist as are tried.
Settled == owner # None /\ UNCHANGED layoutVars

\* SymmBuffer.__init__: the capacity is rounded up first.
Construct(asked) ==
  LET s == [asked EXCEPT !.capacity = Align(asked.capacity, KTokenAlignment)]
  IN  Allocate(s) \/ Share(s)

LayoutNext == (\E asked \in Shapes : Construct(asked)) \/ Settled

LayoutSpec == LayoutInit /\ [][LayoutNext]_layoutVars

-----------------------------------------------------------------------------
Apart(a, b) == a.offset + a.bytes <= b.offset \/ b.offset + b.bytes <= a.offset

\* Protocol words and staging: what a peer may write before this rank has ended
\* its round, at offsets computed from the view the peer is in.
Shared == {"scatter", "dispatch_retire", "dispatch_arrivals", "dispatch_counts",
           "preprocess_ready", "copy_ready", "staging_scales0", "staging_scales1",
           "staging_counts0", "staging_counts1", "staging_tokens0", "staging_tokens1"}

\* The regions of a view do not overlap and end within the allocation, whose size
\* another shape has determined.
RegionsDisjoint ==
  \A s \in DOMAIN views : \A i \in DOMAIN views[s] :
        /\ views[s][i].offset + views[s][i].bytes <= allocated
        /\ \A j \in DOMAIN views[s] \ {i} : Apart(views[s][i], views[s][j])

\* All views have the protocol words and the staging at the same place, in the same
\* size: "fixed protocol state shared by all views", and when the generation wraps
\* in one view it clears the flags of all.
ViewsAgree ==
  \A s, v \in DOMAIN views : \A name \in Shared : views[s][name] = views[v][name]

\* The scale rows of different experts, each expert's rounded up to the alignment, do
\* not overlap, and the last end within `limit', for all numbers of tokens.
ScaleRowsApart(s, limit) ==
  LET experts == 0 .. Groups(s) - 1
  IN  \A m \in [experts -> Counts] :
        LET prefix[e \in 0 .. Groups(s)] == IF e = 0 THEN 0 ELSE prefix[e - 1] + m[e - 1]
            end(e) == RowOffset(prefix[e], e) + Align(m[e], KRowAlignment)
        IN  prefix[Groups(s)] <= Compact(s) =>
              \A e \in experts :
                end(e) <= IF e + 1 \in experts THEN RowOffset(prefix[e + 1], e + 1) ELSE limit

\* The highest index that the kernels of a view form lies within its region,
\* although sizes come from the owner's shape and are rounded; in local_sfa, where
\* each expert's rows begin at the tokens before it, in the rows of no other expert.
IndicesFit ==
  \A s \in DOMAIN views :
  /\ R * s.capacity * (s.hidden \div 64) * 2 <= views[s]["staging_scales0"].bytes
  /\ Groups(s) * R * 4 <= views[s]["staging_counts0"].bytes
  /\ Groups(s) * R * s.capacity * 4 <= views[s]["staging_tokens0"].bytes
  /\ PoolBlocks(s) * 4 <= views[s]["copy_ready"].bytes
  /\ ScaleRowsApart(s, views[s]["local_sfa"].bytes \div ((s.hidden \div 64) * 2))
=============================================================================
