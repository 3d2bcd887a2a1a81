------------------------- MODULE GraphClientManager -------------------------
(***************************************************************************)
(* The calls that the blob migrator makes on a SharePoint Embedded         *)
(* container (Samples/migrate-abs-to-spe/GraphClientManager.cs), as        *)
(* operators from the drive before a call to its possible results.         *)
(*                                                                         *)
(* The drive is a partial function from item ids to contents.  Graph hands *)
(* out opaque ids; nothing renames or deletes an item while the migrator   *)
(* runs, so an item's id is represented by its path from the drive's root, *)
(* in the case-folded form under which SharePoint compares names.          *)
(***************************************************************************)
EXTENDS Integers, Sequences

CONSTANTS
    Name,       \* folder and file names, as they are written in blob names
    Fold,       \* Name -> Name: the form in which SharePoint compares a name
    Blobs,      \* non-empty blob names
    DirOf,      \* Blobs -> Seq(Name): the path segments before the last one
    NameOf,     \* Blobs -> Name: the last path segment
    Container,  \* the blob container's name: the top folder of the migration
    Folder,     \* what the drive holds at a folder's id
    Foreign,    \* a file that no blob of this migration put there
    Faulty      \* whether calls may fail for reasons outside the drive's state

ASSUME NamesAssumption ==
    /\ Fold \in [Name -> Name]
    /\ DirOf \in [Blobs -> Seq(Name)]
    /\ NameOf \in [Blobs -> Name]
    /\ Container \in Name
    /\ Folder \notin Blobs \cup {Foreign}
    /\ Foreign \notin Blobs
    /\ Faulty \in BOOLEAN

-----------------------------------------------------------------------------
(* Item ids.  No call returns the root, so its id also stands for null. *)
Root == << >>
NullItem == << >>

(* The id that an item called n has, or would have, below the item p. *)
Child(p, n) == Append(p, Fold[n])

(* f, and k bound to v as well. *)
Bind(f, k, v) == [x \in DOMAIN f \cup {k} |-> IF x = k THEN v ELSE f[x]]

IsFolder(drive, p) == p = Root \/ (p \in DOMAIN drive /\ drive[p] = Folder)

(* Mutant of Accepts: conflictBehavior "replace". *)
AcceptsReplacing(drive, n, p) == IsFolder(drive, p)

(* The service accepts a new child called n below p: p is a folder, and    *)
(* conflictBehavior "fail" refuses a name that is taken.                   *)
Accepts(drive, n, p) == IsFolder(drive, p) /\ Child(p, n) \notin DOMAIN drive

(* CheckIfItemExists: the item, or null.  Every error, the 404 of a missing *)
(* item as much as a timeout, is logged and becomes null.                  *)
CheckIfItemExists(drive, n, p) ==
    LET there == IF IsFolder(drive, p) THEN {Child(p, n)} \cap DOMAIN drive ELSE {}
    IN  there \cup (IF Faulty \/ there = {} THEN {NullItem} ELSE {})

(* What a call that adds content c under the name n below p may answer: ok *)
(* if the service accepts it, err if it refuses it, and any fault: err     *)
(* without effect, or a reply that is lost after the item was made.        *)
AddItem(drive, n, p, c, ok, err) ==
    LET made == Bind(drive, Child(p, n), c)
    IN  IF Accepts(drive, n, p)
          THEN {[drive |-> made, item |-> ok]} \cup
               (IF Faulty THEN {[drive |-> d, item |-> err] : d \in {drive, made}}
                          ELSE {})
          ELSE {[drive |-> drive, item |-> err]}

(* CreateFolder: the new folder, or null after any error.                  *)
CreateFolder(drive, n, p) ==
    AddItem(drive, n, p, Folder, Child(p, n), NullItem)

(* UploadStreamToSharePointAsync: true with the file in place, false when  *)
(* the upload task ends without UploadSucceeded, an exception otherwise.   *)
UploadStream(drive, n, p, b) ==
    AddItem(drive, n, p, b, "true", "throws") \cup
    (IF Faulty THEN {[drive |-> drive, item |-> "false"]} ELSE {})
=============================================================================
