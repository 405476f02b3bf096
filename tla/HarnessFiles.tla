---------------------------- MODULE HarnessFiles ----------------------------
(***************************************************************************)
(* One skill on the mind's disk, as the routes of mind_server change it:    *)
(* skills_sync copies it between the repo and the harness's own directory   *)
(* or removes it, mind_files opens and saves its SKILL.md. Copies, removals  *)
(* and saves run in threads (asyncio.to_thread), so they meet at every call *)
(* to the file system. A text is a number, its revision is the text itself  *)
(* (a hash of it); a directory is what its files hold.                      *)
(***************************************************************************)
EXTENDS Integers, Sequences

CONSTANTS
  Copies,     \* requests to install, write back or remove the skill
  Editors,    \* consoles with the skill's SKILL.md open
  MaxTexts    \* bound: texts that ever exist

ASSUME TextsAssumption == MaxTexts \in Nat /\ MaxTexts >= 2

VARIABLES
  tree,      \* what the skill's files hold under each root
  made,      \* whether its directory is there
  op,        \* each copy: its stage, its root, what it has yet to copy or delete and has
             \* copied; ghosts: its origin was half a skill, it met nobody
  ed,        \* each editor: its stage, the text it shows and its revision
  texts,     \* how many texts have been written so far
  spoiled    \* ghost: a root where a delete failed or was cut off, or half a
             \* skill was copied to

filesVars == <<tree, made, op, ed, texts, spoiled>>
editorVars == <<ed, texts>>

Roots == {"repo", "mind"}
Files == {"md", "sub"}
Gone == 0
Texts == 1 .. MaxTexts
None == [f \in Files |-> Gone]

Other(r) == IF r = "repo" THEN "mind" ELSE "repo"
Whole(t) == \A f \in Files : t[f] # Gone
Held(t) == {f \in Files : t[f] # Gone}

OpPCs == {"new", "list", "copy", "replace", "delete", "rename", "report",
          "same", "differs", "missing", "removed", "failed", "refused"}
OpEnded == {"same", "differs", "missing", "removed", "failed", "refused"}

FilesTypeOK ==
  /\ tree \in [Roots -> [Files -> Texts \cup {Gone}]]
  /\ made \in [Roots -> BOOLEAN]
  /\ op \in [Copies -> [pc : OpPCs, to : Roots, copies : BOOLEAN, todo : SUBSET Files,
                        got : [Files -> Texts \cup {Gone}], half : BOOLEAN,
                        lost : BOOLEAN, alone : BOOLEAN]]
  /\ ed \in [Editors -> [pc : {"closed", "reading", "open", "saving", "checked", "saved"},
                         seen : Texts, rev : Texts, new : Texts,
                         torn : BOOLEAN, overtaken : BOOLEAN]]
  /\ texts \in Texts
  /\ spoiled \in [Roots -> BOOLEAN]

\* The repo ships one version, the mind has its own or none at all.
FilesInit ==
  /\ tree \in {[r \in Roots |-> IF r = "repo" THEN [f \in Files |-> 1] ELSE m] :
                 m \in {None, [f \in Files |-> 2]}}
  /\ made = [r \in Roots |-> Whole(tree[r])]
  /\ op = [c \in Copies |-> [pc |-> "new", to |-> "mind", copies |-> TRUE, todo |-> {},
                             got |-> None, half |-> FALSE, lost |-> FALSE,
                             alone |-> FALSE]]
  /\ ed = [e \in Editors |-> [pc |-> "closed", seen |-> 1, rev |-> 1, new |-> 1,
                              torn |-> FALSE, overtaken |-> FALSE]]
  /\ texts = 2
  /\ spoiled = [r \in Roots |-> FALSE]

-----------------------------------------------------------------------------
(* skills_sync: a copy or a removal, between two calls to the file system.  *)

AtWork(c) == op[c].pc \notin OpEnded \cup {"new"}
Saving(e) == ed[e].pc \in {"saving", "checked"}

\* Somebody else is changing files: whoever was alone no longer is.
Disturbed == [c \in Copies |-> [op[c] EXCEPT !.alone = FALSE]]

\* An editor whose revision has been compared, and whose file is then changed.
Overtaken == [e \in Editors |-> [ed[e] EXCEPT !.overtaken = @ \/ ed[e].pc = "checked"]]

\* _copy_skill and remove_skill begin by looking for the SKILL.md they need.
Begin(c, to, copies) ==
  LET from == IF copies THEN Other(to) ELSE to
      alone == /\ \A d \in Copies \ {c} : ~AtWork(d)
               /\ \A e \in Editors : ~Saving(e)
  IN
  /\ op[c].pc = "new"
  /\ op' = [Disturbed EXCEPT ![c] = [@ EXCEPT
              !.pc = IF tree[from]["md"] = Gone THEN "refused"
                     ELSE IF copies THEN "list" ELSE "replace",
              !.to = to, !.copies = copies, !.alone = alone]]
  /\ UNCHANGED <<tree, made, editorVars, spoiled>>

Install(c) == Begin(c, "mind", TRUE)
WriteBack(c) == Begin(c, "repo", TRUE)
Remove(c) == Begin(c, "mind", FALSE)

\* copytree asks for the entries first and copies those.
ListOrigin(c) ==
  /\ op[c].pc = "list"
  /\ LET origin == tree[Other(op[c].to)] IN
       op' = [op EXCEPT ![c].todo = Held(origin), ![c].half = ~Whole(origin), ![c].pc = "copy"]
  /\ UNCHANGED <<tree, made, editorVars, spoiled>>

\* Mutant: the staging directory is named for the skill, so that two copies
\* share it and one clears what the other has copied.
CopyFileShared(c, f) ==
  LET text == tree[Other(op[c].to)][f] IN
  /\ op[c].pc = "copy"
  /\ f \in op[c].todo
  /\ op' = [d \in Copies |->
              IF d = c THEN [op[c] EXCEPT !.got[f] = text, !.todo = @ \ {f}]
              ELSE [op[d] EXCEPT !.got = None]]
  /\ UNCHANGED <<tree, made, editorVars, spoiled>>

\* One file into the staging directory; a file gone since fails the copy, and
\* the staging directory goes with it.
CopyFile(c, f) ==
  LET text == tree[Other(op[c].to)][f] IN
  /\ op[c].pc = "copy"
  /\ f \in op[c].todo
  /\ op' = [op EXCEPT ![c] = IF text = Gone
              THEN [@ EXCEPT !.pc = "failed"]
              ELSE [@ EXCEPT !.got[f] = text, !.todo = op[c].todo \ {f}]]
  /\ UNCHANGED <<tree, made, editorVars, spoiled>>

CopyDone(c) ==
  /\ op[c].pc = "copy"
  /\ op[c].todo = {}
  /\ op' = [op EXCEPT ![c].pc = "replace"]
  /\ UNCHANGED <<tree, made, editorVars, spoiled>>

\* Mutant: the old copy is left where it is.
OpenNothing(c) ==
  /\ op[c].pc = "replace"
  /\ op' = [op EXCEPT ![c].pc = IF op[c].copies THEN "rename" ELSE "removed"]
  /\ UNCHANGED <<tree, made, editorVars, spoiled>>

\* _replace opens the directory it deletes, and works on that one even when
\* another copy has put a new one in its place (lost).
OpenTarget(c) ==
  LET r == op[c].to IN
  /\ op[c].pc = "replace"
  /\ op' = [op EXCEPT ![c] = IF made[r]
              THEN [@ EXCEPT !.pc = "delete", !.todo = Held(tree[r]), !.lost = FALSE]
              ELSE [@ EXCEPT !.pc = IF op[c].copies THEN "rename" ELSE "removed"]]
  /\ UNCHANGED <<tree, made, editorVars, spoiled>>

\* A file another has deleted meanwhile is passed over, or fails the delete
\* (Python before 3.13).
DeleteFile(c, f) ==
  LET r == op[c].to
      there == ~op[c].lost /\ tree[r][f] # Gone
  IN
  /\ op[c].pc = "delete"
  /\ f \in op[c].todo
  /\ \/ /\ op' = [op EXCEPT ![c].todo = @ \ {f}]
        /\ UNCHANGED spoiled
     \/ /\ ~there
        /\ op' = [op EXCEPT ![c].pc = "failed"]
        /\ spoiled' = [spoiled EXCEPT ![r] = @ \/ ~op[c].lost]
  /\ tree' = IF there THEN [tree EXCEPT ![r][f] = Gone] ELSE tree
  /\ ed' = IF there /\ r = "mind" /\ f = "md" THEN Overtaken ELSE ed
  /\ UNCHANGED <<made, texts>>

\* The directory itself goes when it is empty and still the one opened.
DeleteDone(c) ==
  LET r == op[c].to
      gone == ~op[c].lost /\ tree[r] = None
  IN
  /\ op[c].pc = "delete"
  /\ op[c].todo = {}
  /\ made' = IF gone THEN [made EXCEPT ![r] = FALSE] ELSE made
  /\ op' = [d \in Copies |->
              IF d = c THEN [op[c] EXCEPT !.pc = IF ~gone THEN "failed"
                               ELSE IF op[c].copies THEN "rename" ELSE "removed"]
              ELSE [op[d] EXCEPT !.lost = @ \/ (gone /\ op[d].to = r)]]
  /\ spoiled' = IF op[c].lost THEN spoiled ELSE [spoiled EXCEPT ![r] = ~gone]
  /\ UNCHANGED <<tree, editorVars>>

\* A rename onto a directory that is not empty fails.
RenameCopy(c) ==
  LET r == op[c].to
      free == tree[r] = None
  IN
  /\ op[c].pc = "rename"
  /\ tree' = IF free THEN [tree EXCEPT ![r] = op[c].got] ELSE tree
  /\ made' = IF free THEN [made EXCEPT ![r] = TRUE] ELSE made
  /\ op' = [d \in Copies |->
              IF d = c THEN [op[c] EXCEPT !.pc = IF free THEN "report" ELSE "failed"]
              ELSE [op[d] EXCEPT !.lost = @ \/ (free /\ op[d].to = r)]]
  /\ spoiled' = IF free THEN [spoiled EXCEPT ![r] = op[c].half]
                ELSE spoiled
  /\ ed' = IF free /\ r = "mind" THEN Overtaken ELSE ed
  /\ UNCHANGED texts

\* _pair_in and _state: by a hash over every file of either side.
PairState ==
  IF tree["repo"]["md"] = Gone \/ tree["mind"]["md"] = Gone THEN "missing"
  ELSE IF tree["repo"] = tree["mind"] THEN "same" ELSE "differs"

Report(c) ==
  /\ op[c].pc = "report"
  /\ op' = [op EXCEPT ![c].pc = PairState]
  /\ UNCHANGED <<tree, made, editorVars, spoiled>>

\* The process dies: every thread with it, wherever it was. Nothing is
\* cleaned up; a staging directory begins with a dot and is never listed.
FilesCrash ==
  /\ \E c \in Copies : AtWork(c)
  /\ op' = [c \in Copies |-> IF AtWork(c)
                           THEN [op[c] EXCEPT !.pc = "failed", !.alone = FALSE] ELSE op[c]]
  /\ ed' = [e \in Editors |-> IF Saving(e) \/ ed[e].pc = "reading"
                              THEN [ed[e] EXCEPT !.pc = "closed"] ELSE ed[e]]
  /\ spoiled' = [r \in Roots |-> spoiled[r] \/ \E c \in Copies :
                                   op[c].pc = "delete" /\ op[c].to = r /\ ~op[c].lost]
  /\ UNCHANGED <<tree, made, texts>>

-----------------------------------------------------------------------------
(* mind_files: reading runs on the event loop, saving in a thread.          *)

md == tree["mind"]["md"]

\* read_file reads the text and then, by itself, the revision.
ReadText(e) ==
  /\ ed[e].pc \in {"closed", "open"}
  /\ md # Gone
  /\ ed' = [ed EXCEPT ![e].pc = "reading", ![e].seen = md]
  /\ UNCHANGED <<tree, made, op, texts, spoiled>>

ReadRevision(e) ==
  /\ ed[e].pc = "reading"
  /\ ed' = [ed EXCEPT ![e] = IF md = Gone THEN [@ EXCEPT !.pc = "closed"]
              ELSE [@ EXCEPT !.pc = "open", !.rev = md, !.torn = (md # ed[e].seen)]]
  /\ UNCHANGED <<tree, made, op, texts, spoiled>>

\* put_file_content: a new text with the revision of the one it was made from.
Save(e) ==
  /\ ed[e].pc = "open"
  /\ texts < MaxTexts
  /\ texts' = texts + 1
  /\ ed' = [ed EXCEPT ![e].pc = "saving", ![e].new = texts + 1]
  /\ op' = Disturbed
  /\ UNCHANGED <<tree, made, spoiled>>

\* write_file compares: 404 when the file is gone, 409 when it has changed.
CompareRevision(e) ==
  /\ ed[e].pc = "saving"
  /\ ed' = [ed EXCEPT ![e].pc = IF md = ed[e].rev THEN "checked" ELSE "closed",
                      ![e].overtaken = FALSE]
  /\ UNCHANGED <<tree, made, op, texts, spoiled>>

\* The staged file is renamed onto the target, which needs the directory.
ReplaceFile(e) ==
  /\ ed[e].pc = "checked"
  /\ IF made["mind"]
       THEN /\ tree' = [tree EXCEPT !["mind"]["md"] = ed[e].new]
            /\ ed' = [Overtaken EXCEPT ![e].pc = "saved"]
       ELSE /\ ed' = [ed EXCEPT ![e].pc = "closed"]
            /\ UNCHANGED tree
  /\ UNCHANGED <<made, op, texts, spoiled>>

\* Mutant: the revision returned is of what is on disk by then.
SaveAnsweredByReread(e) ==
  /\ ed[e].pc = "saved"
  /\ md # Gone
  /\ ed' = [ed EXCEPT ![e].pc = "open", ![e].seen = ed[e].new, ![e].rev = md,
                      ![e].torn = FALSE]
  /\ UNCHANGED <<tree, made, op, texts, spoiled>>

\* The revision returned is that of the text written.
SaveAnswered(e) ==
  /\ ed[e].pc = "saved"
  /\ ed' = [ed EXCEPT ![e].pc = "open", ![e].seen = ed[e].new, ![e].rev = ed[e].new,
                      ![e].torn = FALSE]
  /\ UNCHANGED <<tree, made, op, texts, spoiled>>

CopyStep(c) ==
  \/ Install(c) \/ WriteBack(c) \/ Remove(c)
  \/ ListOrigin(c) \/ CopyDone(c) \/ OpenTarget(c) \/ DeleteDone(c)
  \/ RenameCopy(c) \/ Report(c)
  \/ \E f \in Files : CopyFile(c, f) \/ DeleteFile(c, f)

EditStep(e) ==
  \/ ReadText(e) \/ ReadRevision(e) \/ Save(e) \/ CompareRevision(e)
  \/ ReplaceFile(e) \/ SaveAnswered(e)

FilesNext ==
  \/ \E c \in Copies : CopyStep(c)
  \/ \E e \in Editors : EditStep(e)
  \/ FilesCrash

-----------------------------------------------------------------------------
(* Properties *)

\* While nobody is deleting it, a skill is there with all its files or not at
\* all, under either root, through concurrent copies, removals and saves;
\* but for a delete that failed or was cut off, or a copy of such a half.
NeverHalf ==
  \A r \in Roots :
    \/ tree[r] = None \/ Whole(tree[r])
    \/ spoiled[r]
    \/ \E c \in Copies : op[c].to = r /\ op[c].pc = "delete" /\ ~op[c].lost

\* A copy that nobody meets succeeds and says so, whatever state a crash or a
\* failed copy left its target in: installing again is the repair.
CopyRepairs ==
  \A c \in Copies :
    op[c].alone /\ op[c].copies /\ op[c].pc \in OpEnded => op[c].pc \in {"same", "refused"}

\* Skills on the disk: never half, and repaired by a copy.
SkillsAreWhole == NeverHalf /\ CopyRepairs

\* A save that is accepted replaces the very text its console showed, unless
\* another writer came between the comparison and the rename, or between the
\* two halves of the read; so also the second save of a console, which sends
\* the revision the first was answered with.
SaveReplacesWhatItSaw ==
  [][\A e \in Editors :
       ed[e].pc = "checked" /\ ed'[e].pc = "saved" /\ ~ed[e].overtaken /\ ~ed[e].torn
         => md = ed[e].seen]_filesVars

\* Stronger, and not kept: every accepted save does (the docstring of
\* _revision). The comparison and the rename are two calls, and so are the
\* text and the revision of a read.
SaveNeverClobbers ==
  [][\A e \in Editors :
       ed[e].pc = "checked" /\ ed'[e].pc = "saved" => md = ed[e].seen]_filesVars

FilesSpec == FilesInit /\ [][FilesNext]_filesVars
=============================================================================
