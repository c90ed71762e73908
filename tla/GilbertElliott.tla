--------------------------- MODULE GilbertElliott ---------------------------
(***************************************************************************)
(* The burst-loss chain of lib/ci_ge.c.  ci_ge_fill runs it along the      *)
(* packet index, ci_ge_state_step along the transmissions.  Thresholds are *)
(* the values ci_ge_threshold returns; how they are derived from a target  *)
(* loss is floating-point arithmetic and is left out.                      *)
(***************************************************************************)
EXTENDS FlowIndex

CONSTANT Mix(_)  \* ci_splitmix64, mixing a small seed

\* The drop vector of n packets: the chain starts GOOD, each entry is the state
\* before the draw of its index, and BAD drops.
ci_ge_fill(seed, t_g2b, t_b2g, n) ==
  LET bad[i \in 0 .. n] ==
        IF i = 0 THEN FALSE
        ELSE IF bad[i - 1] THEN ~(Draw(Mix(seed), i - 1) < t_b2g)
             ELSE Draw(Mix(seed), i - 1) < t_g2b
  IN [i \in 1 .. n |-> bad[i - 1]]

\* Faulty variant: the seed is not mixed.
ci_ge_state_init_unmixed(seed, t_g2b, t_b2g) ==
  [seed |-> seed, step |-> 0, t_g2b |-> t_g2b, t_b2g |-> t_b2g, bad |-> FALSE]

ci_ge_state_init(seed, t_g2b, t_b2g) ==
  [seed |-> Mix(seed), step |-> 0, t_g2b |-> t_g2b, t_b2g |-> t_b2g, bad |-> FALSE]

\* One transmission: the decision is the state before the step (st.bad); then
\* one draw, keyed on the step counter, moves the chain.
ci_ge_state_step(st) ==
  LET d == Draw(st.seed, st.step) IN
  [st EXCEPT !.step = @ + 1,
             !.bad  = IF @ THEN ~(d < st.t_b2g) ELSE d < st.t_g2b]
=============================================================================
