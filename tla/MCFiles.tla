------------------------------ MODULE MCFiles ------------------------------
(* What lives in files, for model checking: the agent loop and its state      *)
(* directory, and the reading of a tree that moves.  They share no state: a   *)
(* behaviour is of one of them.                                               *)
EXTENDS AgentRun, EvidenceScan, TLC

VARIABLE use

files == <<use, vars, evidence>>

FilesInit ==
    /\ use \in {"run", "evidence"}
    /\ Init /\ ScanInit
    /\ use # "evidence" => walk.os = "posix"

FilesNext ==
    /\ UNCHANGED use
    /\ \/ use = "run" /\ Next /\ UNCHANGED evidence
       \/ use = "evidence" /\ ScanNext /\ UNCHANGED vars

FilesSpec == FilesInit /\ [][FilesNext]_files

-----------------------------------------------------------------------------
CONSTANTS p1, p2, c1, c2
\* Processes and candidates are only compared with each other.
Symmetry == Permutations({p1, p2}) \cup Permutations({c1, c2})

\* A checkout with a file, a link and a directory that is named like an
\* environment, and a tree elsewhere.
CONSTANTS top, file, environment, inner, link, elsewhere, outer, secret

Objects == {top, file, environment, inner, link, elsewhere, outer, secret}
Kind == [o \in Objects |->
    CASE o \in {top, environment, elsewhere, outer} -> "dir"
      [] o = link -> "link"
      [] OTHER                                      -> "file"]
TheLayout == [d \in {top, environment, elsewhere, outer} |->
    CASE d = top         -> [a |-> file, e |-> environment, g |-> Nil]
      [] d = environment -> [a |-> inner, e |-> link, g |-> Nil]
      [] d = elsewhere   -> [a |-> secret, e |-> outer, g |-> Nil]
      [] OTHER           -> [a |-> Nil, e |-> Nil, g |-> Nil]]
=============================================================================
