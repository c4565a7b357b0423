----------------------------- MODULE MmapArena -----------------------------
(***************************************************************************)
(* mmap of libc/sys/rigel/mman.c, from which malloc gets its memory: a     *)
(* word that moves up through the arena and is never locked.  The caller   *)
(* loads the word, adds the length and stores it back.                     *)
(***************************************************************************)
EXTENDS Integers, Sequences

CONSTANTS
  Thread,                 \* hardware thread numbers
  Word,                   \* addresses are 0 .. Word-1 (2^32 on the machine)
  Line,                   \* bytes of a cache line (32)
  ArenaStart, ArenaEnd,   \* malloc_arena_start and malloc_arena_end
  Lens                    \* lengths that malloc asks for

ASSUME ArenaAssumption ==
  /\ Word \in Nat \ {0} /\ Line \in Nat \ {0}
  /\ ArenaStart \in 1 .. Word - 1 /\ ArenaEnd \in ArenaStart .. Word - 1
  /\ Lens \subseteq 0 .. Word - 1

VARIABLES
  top,       \* malloc_arena_top
  request,   \* per thread: the length asked for and the top it has loaded
  regions    \* history: what was returned

arena == <<top, request, regions>>

ArenaInit ==
  /\ top = 0
  /\ request = [t \in Thread |-> [len |-> 0, ret |-> 0]]
  /\ regions = <<>>

\* Mutant: the length is not rounded up to whole lines but down.
RoundedDown(len) == (len \div Line) * Line

\* (len + 31) & ~0x1F, in a word.
Rounded(len) == (((len + Line - 1) % Word) \div Line) * Line

\* The address that the caller goes on from: the first call starts the arena.
Base == IF top = 0 THEN ArenaStart ELSE top

\* The arena is not used up, and the caller has loaded where it stands.
MmapLoad(t, len) ==
  /\ top <= ArenaEnd
  /\ request' = [request EXCEPT ![t] = [len |-> len, ret |-> Base]]
  /\ UNCHANGED <<top, regions>>

MmapFull == top > ArenaEnd /\ UNCHANGED arena

NewTop(t) == (request[t].ret + Rounded(request[t].len)) % Word

\* The new top is stored even when it is past the end and the call fails.
MmapStore(t) ==
  /\ top' = NewTop(t)
  /\ regions' = IF NewTop(t) > ArenaEnd \/ NewTop(t) < ArenaStart THEN regions
                ELSE Append(regions, [base |-> request[t].ret, len |-> request[t].len])
  /\ UNCHANGED request

-----------------------------------------------------------------------------

\* "a newly allocated chunk" (malloc.c.h of malloc): what mmap has returned
\* lies in the arena, and no two regions share a byte.
RegionsApart ==
  \A i \in 1 .. Len(regions) :
    LET r == regions[i] IN
    /\ ArenaStart <= r.base /\ r.base + r.len - 1 <= ArenaEnd
    /\ \A j \in 1 .. i - 1 : \/ r.base + r.len <= regions[j].base
                             \/ regions[j].base + regions[j].len <= r.base
=============================================================================
