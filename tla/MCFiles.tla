------------------------------ MODULE MCFiles ------------------------------
(***************************************************************************)
(* Threads use one of four parts of the file calls: the hard link table,   *)
(* the list of mounts, a directory that they read, or the descriptor       *)
(* tables.  The parts have no state in common; those not used rest.        *)
(***************************************************************************)
EXTENDS Hardlinks, FdTable, Getdents, Mount, TLC

CONSTANTS a, b,               \* nodes of the file tree
          mnt, mnt2, mntsub,  \* "/mnt", "/mnt2" and "/mnt/sub"
          p1, p2, d1, d2, d3  \* processes, and threads of p1, p1 and p2

ASSUME FilesAssumption == None \notin Threads

(* A plain path, and two directories, one of them at the same place.       *)
MCNamed == {[node |-> a, slash |-> FALSE], [node |-> a, slash |-> TRUE],
            [node |-> b, slash |-> TRUE]}
MCPoints == {mnt, mnt2, mntsub}
MCStrPrefix == {<<p, p>> : p \in MCPoints} \cup {<<mnt, mnt2>>, <<mnt, mntsub>>}
MCSize == <<1, 2, 1, 2>>      \* short and long directory entries in turn
MCProcOf == (d1 :> p1) @@ (d2 :> p1) @@ (d3 :> p2)
MCSymmetry == Permutations(Threads) \cup Permutations({d1, d2})    \* d1, d2 in p1

VARIABLE part

linkVars == <<disk, table, call>>
allVars == <<part, linkVars, mountVars, direntVars, fdVars>>

FilesInit ==
  /\ FdInit /\ DirInit /\ MountInit /\ Init
  /\ part \in {"links", "mounts", "dirents", "descriptors"}
  /\ part # "links" => disk = [n \in Nodes |-> "none"]

Linking == part = "links" /\ UNCHANGED <<part, mountVars, direntVars, fdVars>>
Mounting == part = "mounts" /\ UNCHANGED <<part, linkVars, direntVars, fdVars>>
Listing == part = "dirents" /\ UNCHANGED <<part, linkVars, mountVars, fdVars>>
Sharing == part = "descriptors" /\ UNCHANGED <<part, linkVars, mountVars, direntVars>>

FilesNext ==
  (Linking /\ Next) \/ (Mounting /\ MountNext) \/ (Listing /\ DirNext) \/ (Sharing /\ FdNext)
FilesSpec == FilesInit /\ [][FilesNext]_allVars
=============================================================================
