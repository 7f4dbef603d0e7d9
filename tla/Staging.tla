------------------------------ MODULE Staging ------------------------------
(***************************************************************************)
(* A staging job (src/action/action.cpp, stage): the frames of a request   *)
(* are linked or copied into a directory of the job, by image type, and the *)
(* directories are handed to PixInsight (src/pix/wbpp.cpp, render).        *)
(* A file name is <<stem, numbers>>, the numbers being the suffixes it got. *)
(* A frame is [id, name, image_type, there], there telling whether its     *)
(* file exists.  Link failures of the staging file system (another device,  *)
(* no room, no permission) are left out.                                    *)
(***************************************************************************)
EXTENDS Integers, Sequences, SequencesExt, Functions

LinkModes == {"symlink", "hardlink", "copy"}

(* Mutant: the suffix tells the frames of a job no longer apart. *)
WithSameSuffix(name, n) == [name EXCEPT !.numbers = Append(@, 1)]

(* with_suffix *)
WithSuffix(name, n) == [name EXCEPT !.numbers = Append(@, n)]

(* exists() follows a link: a name is taken if it leads to a file. *)
Taken(tree, place) == place \in DOMAIN tree /\ tree[place].there

Destination(tree, f) ==
    LET plain == <<f.image_type, f.name>>
    IN IF Taken(tree, plain) THEN <<f.image_type, WithSuffix(f.name, f.id)>> ELSE plain

(* No mode overwrites; only a symbolic link can be made to nothing. *)
CanLink(tree, mode, f, place) == place \notin DOMAIN tree /\ (f.there \/ mode = "symlink")

StageOne(mode, job, f) ==
    LET place == Destination(job.tree, f)
        ok == CanLink(job.tree, mode, f, place)
    IN [job EXCEPT
          !.tree = IF ok THEN [p \in DOMAIN @ \cup {place} |-> IF p = place THEN f ELSE @[p]] ELSE @,
          !.items = Append(@, [frame |-> f, dst |-> place, status |-> IF ok THEN "ok" ELSE "failed"])]

NoTree == [p \in {} |-> {}]

Staged(mode, frames) ==
    LET done == FoldLeft(LAMBDA job, f : StageOne(mode, job, f), [tree |-> NoTree, items |-> <<>>], frames)
        failed == {i \in DOMAIN done.items : done.items[i].status = "failed"}
    IN [tree |-> done.tree, items |-> done.items,
        status |-> IF failed = {} THEN "done" ELSE "failed",
        dirs |-> {f.image_type : f \in ToSet(frames)}]
=============================================================================
