---------------------------- MODULE MCTestSuite ----------------------------
(* Constant values for the run of TestSuite.                               *)
EXTENDS TestSuite

EveryProgram == AllPrograms
============================================================================
