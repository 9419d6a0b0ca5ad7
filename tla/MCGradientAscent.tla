-------------------------- MODULE MCGradientAscent --------------------------
(***************************************************************************)
(* Each ascent of up to four rows and up to three turns, and two tests     *)
(* with up to two lines.                                                   *)
(***************************************************************************)
EXTENDS GradientAscent

Job(routine, m, rounds, tests, lines) ==
  [routine |-> routine, m |-> m, rounds |-> rounds, tests |-> tests, lines |-> lines]

MCJobs ==
  {Job("gradAscent", 3, 4, 1, 0), Job("stocGradAscent0", 4, 1, 1, 0),
   Job("stocGradAscent1", 1, 3, 1, 0), Job("stocGradAscent1", 3, 3, 1, 0),
   Job("stocGradAscent1", 4, 2, 1, 0),
   Job("multiTest", 3, 1, 2, 0), Job("multiTest", 3, 1, 2, 2), Job("multiTest", 2, 2, 3, 1)}
=============================================================================
