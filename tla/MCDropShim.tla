----------------------------- MODULE MCDropShim -----------------------------
(***************************************************************************)
(* Small instances of DropShim for TLC.  A seed is the list of the draws   *)
(* it yields, repeated for ever, so that every short draw pattern occurs.  *)
(***************************************************************************)
EXTENDS DropShim

Period == 3
MCDraw(seed, index) == seed[index % Period]
MCMix(seed) == [i \in 0 .. Period - 1 |-> 1 - seed[(i + 1) % Period]]

ByProbability(seed, p, port) ==
  [seed |-> seed, match_dport |-> port, match_rdp_syn |-> FALSE, threshold |-> p,
   replay_vector |-> NoVector]
ByReplay(vec) ==
  [ByProbability([i \in 0 .. Period - 1 |-> 0], 1, FlowPort) EXCEPT !.replay_vector = vec]
SynOnly ==
  [ByProbability([i \in 0 .. Period - 1 |-> 0], 1, -1) EXCEPT !.match_rdp_syn = TRUE]

\* A draw of 0 drops; "any port" takes in the other traffic too.
SeedOf(t) == [i \in 0 .. Period - 1 |-> t[i + 1]]
PlainRules == {ByProbability(SeedOf(<<0, 1, 1>>), 1, FlowPort)}
AllRules ==
  PlainRules \cup {ByProbability(SeedOf(<<1, 0, 1>>), 1, -1),
                   ByReplay(<<FALSE, FALSE, FALSE, TRUE>>), SynOnly}

BothFlows == {"rdp", "dtp"}
RdpOnly   == {"rdp"}
LateIsn   == {SeqSpace - 2}
Bursty    == {<<1, 1>>, <<2, 0>>}
=============================================================================
