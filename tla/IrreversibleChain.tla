------------------------- MODULE IrreversibleChain -------------------------
(***************************************************************************)
(* What utxomng.xsat promises of the irreversible chain: it only grows, by *)
(* one block at a time, each a child of the tip that the network agreed on *)
(* and that has a line of agreed descendants up to Depth blocks, itself    *)
(* included.  Agreement is forgotten for the heights the chain covers.     *)
(***************************************************************************)
EXTENDS Naturals, Sequences

CONSTANTS Blocks, Genesis, Prev, Height, Depth

VARIABLES
  chain,   \* the irreversible blocks, from the genesis
  agreed   \* blocks above the tip that reached consensus

chainVars == <<chain, agreed>>

Tip == chain[Len(chain)]
TipHeight == Len(chain) - 1

\* A line of agreed blocks, each the parent of the next, that starts at b.
DeepEnough(b) ==
  \E line \in [1..Depth -> agreed] :
    /\ line[1] = b
    /\ \A i \in 2..Depth : Prev[line[i]] = line[i - 1]

Agree(b) ==
  /\ Height[b] > TipHeight
  /\ agreed' = agreed \cup {b}
  /\ UNCHANGED chain

Extend(b) ==
  /\ b \in agreed
  /\ Prev[b] = Tip
  /\ DeepEnough(b)
  /\ chain' = Append(chain, b)
  /\ agreed' = {c \in agreed : Height[c] > Height[b]}

ChainInit == chain = <<Genesis>> /\ agreed = {}

ChainNext == \E b \in Blocks : Agree(b) \/ Extend(b)

ChainSpec == ChainInit /\ [][ChainNext]_chainVars
=============================================================================
