----------------------------- MODULE MCApiAgent -----------------------------
(***************************************************************************)
(* A small instance of ApiAgent for TLC.                                   *)
(***************************************************************************)
EXTENDS ApiAgent

RunSpec(tools, expected, criteria, verify, turns, budget) ==
    [tools |-> tools, expected |-> expected, criteria |-> criteria, verify |-> verify,
     turns |-> turns, calls |-> budget]
\* A worker with a file to write and publish, one with a shell and a smaller call
\* budget, and a verifier that may only look.
ThreeSpecs ==
    {RunSpec({"fs.write", "artifact.publish"}, {"f"}, TRUE, FALSE, 3, 3),
     RunSpec({"fs.read", "fs.write", "shell.run"}, {}, FALSE, FALSE, 3, 2),
     RunSpec({"fs.read"}, {}, TRUE, TRUE, 1, 1)}
=============================================================================
