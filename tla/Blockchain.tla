----------------------------- MODULE Blockchain -----------------------------
(***************************************************************************)
(* Timestamps and difficulty of the block database (src/blockchain.cpp).   *)
(*                                                                         *)
(* The database is opened by the node, which stores blocks with AddBlock,  *)
(* or by a command of the CLI, which stores them with MineBlock.  Whoever  *)
(* opens it keeps the timestamps of the newest blocks in a window beside   *)
(* it.  A block is its timestamp and its difficulty in bits; transactions  *)
(* are the subject of module Ledger.                                       *)
(***************************************************************************)
EXTENDS Integers, Sequences, FiniteSets

CONSTANTS
  MEDIAN_TIME_SPAN, MAX_FUTURE_BLOCK_TIME,
  RETARGET_INTERVAL, TARGET_TIMESPAN,
  INITIAL_BITS, MIN_BITS, MAX_BITS,
  HASH_BITS,   \* width of a hash: 256
  Times,       \* bound: the instants at which something happens
  MaxHeight    \* bound: height at which no more blocks are stored

ASSUME BlockchainAssumption ==
  /\ MEDIAN_TIME_SPAN \in Nat \ {0} /\ MAX_FUTURE_BLOCK_TIME \in Nat
  /\ RETARGET_INTERVAL \in Nat \ {0} /\ TARGET_TIMESPAN \in Nat \ {0}
  /\ MIN_BITS \in Nat /\ MAX_BITS \in Nat /\ HASH_BITS \in Nat
  /\ INITIAL_BITS \in MIN_BITS .. MAX_BITS /\ MAX_BITS < HASH_BITS
  /\ Times \subseteq Nat /\ MaxHeight \in Nat

\* Arithmetic, not the code: what a power of two is, to the provers.
ASSUME DoublingAssumption == \A k \in 0 .. HASH_BITS + 1 : 2^(k + 1) = 2 * 2^k

VARIABLES
  chain,    \* blocks in the database, genesis first
  recent,   \* recentTimestamps, newest first
  process,  \* who has the database open
  now       \* the clock

vars == <<chain, recent, process, now>>

Block == [ts : Times, bits : MIN_BITS .. MAX_BITS]

TypeOK ==
  /\ chain \in Seq(Block) /\ chain # <<>>
  /\ recent \in Seq(Times)
  /\ process \in {"none", "node", "cli"}
  /\ now \in Times

-----------------------------------------------------------------------------
Smaller(a, b) == IF a < b THEN a ELSE b

Clamp(low, x, high) == IF x < low THEN low ELSE IF x > high THEN high ELSE x

Tip == chain[Len(chain)]

\* The newest timestamps of a chain, newest first.
LoadRecentTimestamps ==
  [k \in 1 .. Smaller(Len(chain), MEDIAN_TIME_SPAN) |-> chain[Len(chain) + 1 - k].ts]

\* Mutant of PushTimestamp: the deque is used from the wrong end.
PushTimestampBack(ts) ==
  SubSeq(Append(recent, ts), 1, Smaller(Len(recent) + 1, MEDIAN_TIME_SPAN))

PushTimestamp(ts) == SubSeq(<<ts>> \o recent, 1, Smaller(Len(recent) + 1, MEDIAN_TIME_SPAN))

Before(window, t) == {i \in DOMAIN window : window[i] < t}
UpTo(window, t)   == {i \in DOMAIN window : window[i] <= t}

\* The element at position size / 2, counted from 0, of the sorted window.
IsMedian(window, t) ==
  LET middle == Len(window) \div 2
  IN  Cardinality(Before(window, t)) <= middle /\ middle < Cardinality(UpTo(window, t))

Median(window) == IF window = <<>> THEN 0 ELSE CHOOSE t \in Times : IsMedian(window, t)

GetMedianTimePast == Median(recent)

(***************************************************************************)
(* GetNextWorkRequired.  A block has difficulty bits if its hash is below  *)
(* 2 ^ (HASH_BITS - bits).  Every RETARGET_INTERVAL blocks that target is  *)
(* scaled by the time the interval took and rounded to a power of two.     *)
(***************************************************************************)
\* BN_num_bits
NumBits(n) == Cardinality({k \in 0 .. HASH_BITS + 2 : 2^k <= n})

\* Mutants of Retarget: the ratio is upside down; the result is not clamped.
RetargetInverted(bits, span) ==
  LET actual == Clamp(TARGET_TIMESPAN \div 4, span, TARGET_TIMESPAN * 4)
      target == (2^(HASH_BITS - bits) * TARGET_TIMESPAN) \div actual
  IN  Clamp(MIN_BITS, HASH_BITS - NumBits(target), MAX_BITS)

RetargetUnclamped(bits, span) ==
  LET actual == Clamp(TARGET_TIMESPAN \div 4, span, TARGET_TIMESPAN * 4)
      target == (2^(HASH_BITS - bits) * actual) \div TARGET_TIMESPAN
  IN  HASH_BITS - NumBits(target)

Retarget(bits, span) ==
  LET actual == Clamp(TARGET_TIMESPAN \div 4, span, TARGET_TIMESPAN * 4)
      target == (2^(HASH_BITS - bits) * actual) \div TARGET_TIMESPAN
  IN  Clamp(MIN_BITS, HASH_BITS - NumBits(target), MAX_BITS)

\* The block RETARGET_INTERVAL - 1 below the tip is the anchor.
GetNextWorkRequired ==
  LET anchor == Len(chain) - (RETARGET_INTERVAL - 1)
  IN  IF Len(chain) % RETARGET_INTERVAL # 0 \/ anchor < 1
      THEN Tip.bits
      ELSE Retarget(Tip.bits, Tip.ts - chain[anchor].ts)

-----------------------------------------------------------------------------
\* createblockchain
Init ==
  /\ now \in Times
  /\ chain = <<[ts |-> now, bits |-> INITIAL_BITS]>>
  /\ recent = <<>>
  /\ process = "none"

Open(who) ==
  /\ process = "none"
  /\ process' = who
  /\ recent' = LoadRecentTimestamps
  /\ UNCHANGED <<chain, now>>

Exit ==
  /\ process # "none"
  /\ process' = "none"
  /\ recent' = <<>>
  /\ UNCHANGED <<chain, now>>

\* Block, tip and height are one batch; then the window is moved.
Store(b) ==
  /\ Len(chain) <= MaxHeight
  /\ chain' = Append(chain, b)
  /\ recent' = PushTimestamp(b.ts)
  /\ UNCHANGED <<process, now>>

\* Mutant of AddBlock: no test against the median.
AddBlockAnyTime(ts) ==
  /\ process = "node"
  /\ ts <= now + MAX_FUTURE_BLOCK_TIME
  /\ Store([ts |-> ts, bits |-> GetNextWorkRequired])

\* A block of a peer or of the node itself: its bits have to be the required
\* ones, its timestamp after the median and not far ahead of the clock.
AddBlock(ts) ==
  /\ process = "node"
  /\ ts > GetMedianTimePast
  /\ ts <= now + MAX_FUTURE_BLOCK_TIME
  /\ Store([ts |-> ts, bits |-> GetNextWorkRequired])

\* Blockchain::MineBlock stamps the block with the clock and tests nothing.
MineBlock ==
  /\ process = "cli"
  /\ Store([ts |-> now, bits |-> GetNextWorkRequired])

Tick ==
  /\ \E t \in Times : t > now /\ now' = t
  /\ UNCHANGED <<chain, recent, process>>

Next ==
  \/ \E who \in {"node", "cli"} : Open(who)
  \/ \E ts \in Times : AddBlock(ts)
  \/ Exit \/ MineBlock \/ Tick

Spec == Init /\ [][Next]_vars

-----------------------------------------------------------------------------
\* The window, kept by hand from block to block, is what a restart would read
\* from the database: two nodes with one chain agree on the median.
WindowIsCache == process # "none" => recent = LoadRecentTimestamps

\* No block that a node accepts moves its median time past back, even if
\* timestamps themselves go back.
MedianGrows ==
  [][process = "node" /\ chain' # chain => GetMedianTimePast' >= GetMedianTimePast]_vars

\* The blocks that follow an interval are no easier if it was shorter than it
\* should be, and no harder if it was not.
RetargetsTowards ==
  \A i \in DOMAIN chain :
    i > RETARGET_INTERVAL /\ (i - 1) % RETARGET_INTERVAL = 0 =>
      LET span == chain[i - 1].ts - chain[i - RETARGET_INTERVAL].ts
      IN  IF span < TARGET_TIMESPAN THEN chain[i].bits >= chain[i - 1].bits
                                    ELSE chain[i].bits <= chain[i - 1].bits

(***************************************************************************)
(* What the comments say and the code does not keep                        *)
(***************************************************************************)

\* "4x adjustment cap to prevent any extreme changes" (blockchain.cpp:531):
\* a target grows to four times what it was at most.
RetargetCapped ==
  \A i \in DOMAIN chain : i > 1 => chain[i - 1].bits - chain[i].bits <= 2
=============================================================================
