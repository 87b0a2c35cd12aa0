------------------------------ MODULE MCJobWait ------------------------------
(* Instances of JobWait for TLC.                                           *)
EXTENDS JobWait

CONSTANTS web, dockerService, exec

\* A name that says nothing, one that begins like an area, and one that is one.
SomeIds == {web, dockerService, exec}

SomeStarts ==
  [id \in SomeIds |-> IF id = dockerService THEN {"docker"}
                      ELSE IF id = exec THEN {"exec/"} ELSE {}]
=============================================================================
