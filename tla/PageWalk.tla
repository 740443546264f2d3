------------------------------ MODULE PageWalk ------------------------------
(***************************************************************************)
(* How a device range becomes page table entries.                          *)
(*                                                                         *)
(* Four IOCTLs write the page tables, each with an address arithmetic of   *)
(* its own: MAP_BUFFER and UNMAP_BUFFER cut an extended range at the       *)
(* borders of the sub-tables and recurse on the rest, ALLOC_IO_BUFFERS     *)
(* computes both indices for every page, PARAM_CACHE shares the recursion  *)
(* of MAP but has a simple path of its own.  The recursions appear here as *)
(* a sequence of steps, one sub-table each.                                *)
(*                                                                         *)
(* A table entry that an index out of bounds would reach exists in the     *)
(* model, outside the tables: behind the registers of the simple table,    *)
(* behind the pool of the extended one.  A simple index is a UINT32, and so *)
(* is the offset of its register: the test of the range wraps at UintSpan  *)
(* pages, the register at RegisterSpan.  (MAP, UNMAP and the shadow array  *)
(* pte[] use the same index; the shadow is not modelled.)                  *)
(*                                                                         *)
(* Bounds on the sizes: every range is below 16 TiB, where pageCount       *)
(* itself would be truncated, and a simple range other than UNMAP's below  *)
(* 2 TiB.  Buffers that are mapped or cached are below 4 GiB anyway, the   *)
(* length IoAllocateMdl is given.                                          *)
(***************************************************************************)
EXTENDS Naturals, FiniteSets

CONSTANTS
  PageBytes,    \* PAGE_SIZE (4096)
  SubPages,     \* APEX_PAGES_PER_SUBTABLE (512)
  Regions,      \* sub-tables of the pool (2048)
  IndexSpan,    \* values of a sub-table index, (VA >> 21) & 0x1FFF (8192)
  SimplePages,  \* APEX_EXTENDED_TABLE_BASE_INDEX (6144)
  RegisterSpan, \* registers a UINT32 offset reaches, 8 bytes each (2^29)
  UintSpan,     \* values of a UINT32 (2^32)
  Firsts,       \* device addresses of the calls, in pages
  MaxBytes,     \* bound on the bytes of a buffer
  MaxCalls      \* bound on the calls

ASSUME WalkSizesAssumption ==
  /\ PageBytes \in Nat \ {0} /\ SubPages \in Nat \ {0} /\ Regions \in Nat
  /\ IndexSpan \in Nat \ {0} /\ Regions <= IndexSpan
  /\ SimplePages \in Nat /\ RegisterSpan \in Nat \ {0}
  /\ SimplePages + Regions <= RegisterSpan /\ UintSpan = 8 * RegisterSpan
  /\ Firsts \subseteq Nat /\ MaxBytes \in Nat /\ MaxCalls \in Nat

PageTableSize == SimplePages + Regions
Span          == IndexSpan * SubPages    \* pages of the 34-bit extended space

(***************************************************************************)
(* The cell of device page p, as the code computes it from the address.    *)
(***************************************************************************)
SubtableIdx(p)    == (p \div SubPages) % IndexSpan
HostTableStart(p) == p % SubPages

Cells == [space : {"simple"}, table : {0}, index : 0 .. RegisterSpan - 1]
           \cup [space : {"ext"}, table : 0 .. IndexSpan - 1, index : 0 .. SubPages - 1]

SimpleCell(i) == [space |-> "simple", table |-> 0, index |-> i]
ExtCell(s, i) == [space |-> "ext", table |-> s, index |-> i]
Cell(space, p) == IF space = "simple" THEN SimpleCell(p % RegisterSpan)
                  ELSE ExtCell(SubtableIdx(p), HostTableStart(p))

\* Pages that have cells of their own: a longer range comes back to its first.
Distinct(space) == IF space = "simple" THEN RegisterSpan ELSE Span

InTables(c) == IF c.space = "simple" THEN c.index < PageTableSize ELSE c.table < Regions

(***************************************************************************)
(* What a cell holds: nothing, page j of the buffer of call n, in an       *)
(* extended register the address of its sub-table, and outside the tables  *)
(* whatever somebody else keeps there.                                     *)
(***************************************************************************)
Values      == Nat \X Nat
None        == <<0, 0>>
Frame(n, j) == <<n, j>>
SubTable(r) == <<0, r + 1>>
Foreign     == <<0, Regions + 1>>

Kinds == {"map", "unmap", "cache", "alloc"}
Calls == [kind : Kinds, space : {"simple", "ext"}, first : Nat, off : Nat, bytes : Nat]

VARIABLES
  tables,   \* every cell
  phase,    \* where the call is
  call,     \* the call: its range, the buffer's offset in its first page, its size
  at,       \* ExtDeviceVA / DeviceAddress of the current recursion, a page
  left,     \* NumPages / pageCount of the current recursion
  done,     \* pages written so far
  before,   \* the tables when the call began
  calls     \* number of calls so far

walkVars == <<tables, phase, call, at, left, done, before, calls>>

Phases  == {"idle", "map", "unmap", "alloc", "accepted", "refused"}
Resting == {"idle", "accepted", "refused"}

WalkTypeOK ==
  /\ tables \in [Cells -> Values] /\ before \in [Cells -> Values]
  /\ phase \in Phases /\ call \in Calls
  /\ at \in Nat /\ left \in Nat /\ done \in Nat /\ calls \in Nat

\* ApexPageTableInit: simple entries clear, each extended register points to
\* its sub-table, the pool zeroed.
Fresh == [c \in Cells |->
            CASE ~InTables(c) -> Foreign
              [] InTables(c) /\ c.space = "simple" /\ c.index >= SimplePages ->
                   SubTable(c.index - SimplePages)
              [] OTHER -> None]

NoCall == [kind |-> "unmap", space |-> "simple", first |-> 0, off |-> 0, bytes |-> 0]

WalkInit ==
  /\ tables = Fresh /\ before = Fresh
  /\ phase = "idle" /\ call = NoCall
  /\ at = 0 /\ left = 0 /\ done = 0 /\ calls = 0

\* pageCount: the offset of the buffer in its first page is not considered.
\* Mutant: the last, incomplete page is not counted.
MutPageCount(c) == c.bytes \div PageBytes

PageCount(c) == (c.bytes + PageBytes - 1) \div PageBytes

\* What the call writes for its j-th page.
Written(c, n, j) == IF c.kind = "unmap" THEN None ELSE Frame(n, j)

LastSubtable(c) == SubtableIdx(c.first + PageCount(c) - 1)

(***************************************************************************)
(* A call arrives: the tests its handler makes first, then its walk.       *)
(***************************************************************************)
Begin(c, next) ==
  /\ phase \in Resting /\ calls < MaxCalls
  /\ calls' = calls + 1 /\ call' = c /\ before' = tables
  /\ at' = c.first /\ left' = PageCount(c) /\ done' = 0
  /\ phase' = next
  /\ UNCHANGED tables

\* ApexPageTableMap refuses an empty buffer; ApexExtMapBuffer an empty range.
BeginExt(c) ==
  /\ c.space = "ext"
  /\ Begin(c, CASE c.kind = "unmap" -> "unmap"
                [] c.kind = "alloc" -> IF LastSubtable(c) >= Regions THEN "refused"
                                                                    ELSE "alloc"
                [] OTHER            -> IF c.bytes = 0 THEN "refused" ELSE "map")

\* startPte = (UINT32)(VA >> 12); startPte + pageCount is a UINT32 again.
SimpleRefused(c) ==
  \/ c.kind = "map" /\ c.bytes = 0
  \/ c.kind # "cache" /\ (c.first + PageCount(c)) % UintSpan > PageTableSize

\* Registers from that of the first page on to x, around the end of the offsets.
Distance(c, x) ==
  LET start == c.first % RegisterSpan
  IN  IF start <= x.index THEN x.index - start ELSE x.index + RegisterSpan - start

\* A simple range is written as a whole, under PageTableLock.
BeginSimple(c) ==
  /\ c.space = "simple"
  /\ phase \in Resting /\ calls < MaxCalls
  /\ calls' = calls + 1 /\ call' = c /\ before' = tables
  /\ at' = c.first /\ left' = 0
  /\ IF SimpleRefused(c)
     THEN done' = 0 /\ phase' = "refused" /\ UNCHANGED tables
     ELSE /\ done' = PageCount(c) /\ phase' = "accepted"
          /\ tables' = [x \in Cells |->
               IF x.space = "simple" /\ Distance(c, x) < PageCount(c)
               THEN Written(c, calls + 1, Distance(c, x)) ELSE tables[x]]

(***************************************************************************)
(* ApexExtMapBuffer, one level: the sub-table test, then the entries up to *)
(* the end of the sub-table; the recursion goes on with the rest.          *)
(***************************************************************************)
\* Mutant: every level fills its sub-table.
MutChunk == SubPages - HostTableStart(at)

Chunk == IF HostTableStart(at) + left > SubPages THEN SubPages - HostTableStart(at) ELSE left

Advance(n) == /\ at' = at + n /\ left' = left - n /\ done' = done + n
              /\ phase' = IF n < left THEN phase ELSE "accepted"
              /\ UNCHANGED <<call, before, calls>>

ExtMapRefuse ==
  /\ phase = "map" /\ SubtableIdx(at) >= Regions
  /\ phase' = "refused"
  /\ UNCHANGED <<tables, call, at, left, done, before, calls>>

WriteSubtable(s, start, n) ==
  tables' = [c \in Cells |->
    IF c.space = "ext" /\ c.table = s /\ start <= c.index /\ c.index < start + n
    THEN Written(call, calls, done + (c.index - start)) ELSE tables[c]]

\* Mutant: the recursion starts over with the first frame (Pfns for Pfns + firstChunk).
MutExtMapPfns ==
  /\ phase = "map" /\ SubtableIdx(at) < Regions
  /\ tables' = [c \in Cells |->
       IF /\ c.space = "ext" /\ c.table = SubtableIdx(at)
          /\ HostTableStart(at) <= c.index /\ c.index < HostTableStart(at) + Chunk
       THEN Written(call, calls, c.index - HostTableStart(at)) ELSE tables[c]]
  /\ Advance(Chunk)

\* Mutant: the sub-table is not tested.
MutExtMapUnchecked ==
  /\ phase = "map"
  /\ WriteSubtable(SubtableIdx(at), HostTableStart(at), Chunk)
  /\ Advance(Chunk)

ExtMapChunk ==
  /\ phase = "map" /\ SubtableIdx(at) < Regions
  /\ WriteSubtable(SubtableIdx(at), HostTableStart(at), Chunk)
  /\ Advance(Chunk)

\* ApexPageTableUnmap, extended: the same walk without the sub-table test.
ExtUnmapChunk ==
  /\ phase = "unmap"
  /\ WriteSubtable(SubtableIdx(at), HostTableStart(at), Chunk)
  /\ Advance(Chunk)

\* ALLOC_IO_BUFFERS: page by page, both indices from the page's address.
AllocPage ==
  /\ phase = "alloc"
  /\ tables' = [tables EXCEPT ![ExtCell(SubtableIdx(at), HostTableStart(at))] =
                                 Frame(calls, done)]
  /\ Advance(1)

(***************************************************************************)
(* The inputs: an extended range begins in the 34-bit space, a simple one  *)
(* anywhere; a common buffer is whole pages and starts at the beginning of *)
(* one.                                                                    *)
(***************************************************************************)
Requests ==
  {c \in [kind : Kinds, space : {"simple", "ext"}, first : Firsts,
          off : 0 .. PageBytes - 1, bytes : 0 .. MaxBytes] :
     /\ c.space = "ext"    => c.first < Span
     /\ c.space = "simple" /\ c.kind # "unmap" => PageCount(c) <= RegisterSpan
     /\ PageCount(c) + SubPages <= UintSpan
     /\ c.kind = "alloc" => c.off = 0 /\ c.bytes > 0 /\ c.bytes % PageBytes = 0
     /\ c.kind = "unmap" => c.off = 0
     /\ c.kind = "cache" => c.bytes > 0}

WalkNext == \/ phase \in Resting /\ \E c \in Requests : BeginExt(c) \/ BeginSimple(c)
            \/ ExtMapRefuse \/ ExtMapChunk \/ ExtUnmapChunk \/ AllocPage

WalkSpec == WalkInit /\ [][WalkNext]_walkVars

(***************************************************************************)
(* What the walks must get right.                                          *)
(***************************************************************************)

\* The walk is exact.  However a call cuts its range at the borders of the
\* sub-tables, the entries it has written are those of the first pages of the
\* range, each with its own frame, and every other entry is as before the call;
\* a call that succeeds has written the whole range, one that is refused half
\* way leaves a prefix (ApexExtMapBuffer, ApexPageTableUnmap, ALLOC).
WalkExact ==
  phase # "idle" /\ PageCount(call) <= Distinct(call.space) =>
    /\ \A j \in 0 .. done - 1 :
         tables[Cell(call.space, call.first + j)] = Written(call, calls, j)
    /\ \A c \in Cells :
         (\A j \in 0 .. done - 1 : c # Cell(call.space, call.first + j))
           => tables[c] = before[c]
    /\ phase = "accepted" => done = PageCount(call)

\* The calls whose handlers leave a bound unchecked: UNMAP of an extended
\* range, PARAM_CACHE of a simple one, ALLOC of a range that runs over the end
\* of the 34-bit space, whose last sub-table is taken for a small one, and any
\* call on a simple range that runs over the last UINT32 page: startPte +
\* pageCount wraps to a small number and passes the test.
Unchecked(c) == \/ c.kind = "unmap" /\ c.space = "ext"
                \/ c.kind = "cache" /\ c.space = "simple"
                \/ c.kind = "alloc" /\ c.space = "ext" /\ c.first + PageCount(c) > Span
                \/ c.space = "simple" /\ (c.first % UintSpan) + PageCount(c) >= UintSpan

\* No memory outside the registers and the pool is written, but by a call whose
\* handler does not test the bound in question: testing the last sub-table of
\* a slot, or each recursion of a map, is enough.
WalkStaysInside ==
  ~Unchecked(call) => \A c \in Cells : ~InTables(c) => tables[c] = before[c]

\* Every byte of a page-aligned buffer is reached through its device address
\* once the call has succeeded.  (A buffer that starts inside a page may lack
\* its last page: pageCount leaves its offset out.)
BufferCovered ==
  phase = "accepted" /\ call.kind # "unmap" /\ call.off = 0
    /\ PageCount(call) <= Distinct(call.space) =>
    \A b \in 0 .. call.bytes - 1 :
      tables[Cell(call.space, call.first + (b \div PageBytes))] =
        Frame(calls, b \div PageBytes)
=============================================================================
