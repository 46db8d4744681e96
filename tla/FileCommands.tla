---------------------------- MODULE FileCommands ----------------------------
(***************************************************************************)
(* The shell commands that change the directory tree or the current        *)
(* directory: mkdir, mkfile, rm, rm -r and cd (kernel.c), with the helpers *)
(* of fshelpers.c under them: make_dir, make_file, rm_file, rm_recursive   *)
(* and join_path.                                                          *)
(*                                                                         *)
(* rm_recursive keeps a path as text in a buffer of fixed size and looks   *)
(* every path up again from its first character; it calls itself for       *)
(* every entry, on the 16 KB stack of the kernel.                          *)
(***************************************************************************)
EXTENDS Integers, SequencesExt

CONSTANTS
    Names,        \* names of files and directories: sequences of letters
    MaxPath,      \* characters subpath[] holds: 279
    StackFrames,  \* calls of rm_recursive the kernel stack has room for
    MaxNodes,     \* bound: entries of the tree
    MaxDepth      \* bound: depth of the tree

ASSUME FileAssumption ==
    \* a name, FF_MAX_LFN characters at most, and what leads to it fit in subpath[]
    /\ \A n \in Names : /\ n \in Seq({n[i] : i \in 1 .. Len(n)}) /\ n # <<>>
                       /\ Len(n) + 3 <= MaxPath
    /\ MaxPath \in Nat /\ 2 < MaxPath
    /\ StackFrames \in Nat \ {0}
    /\ MaxNodes \in Nat
    /\ MaxDepth \in Nat

VARIABLES
    tree,     \* the entries: a function from their places to their kinds
    cwd,      \* the current directory
    stack,    \* the calls of rm_recursive that are running, first to last
    overrun,  \* the stack grew past its end
    start,    \* the tree when rm -r was typed
    result,   \* what the last rm told the user
    faults    \* TRUE if the disk may fail

vars == <<tree, cwd, stack, overrun, start, result, faults>>

\* What get_fileinfo reads out of an entry: AM_DIR and AM_RDO.
DirKinds == {"dir", "readonly_dir"}
ReadOnly == {"readonly", "readonly_dir"}
Kinds    == {"file"} \cup DirKinds \cup ReadOnly
Root  == <<>>
Empty == [p \in {} |-> "file"]

IsDir(p) == p = Root \/ (p \in DOMAIN tree /\ tree[p] \in DirKinds)
Kids(p)  == {n \in Names : Append(p, n) \in DOMAIN tree}

(***************************************************************************)
(* A path as it is typed and as join_path builds it: "/a/b", "a/b",        *)
(* "./a" or "../a".                                                        *)
(***************************************************************************)
Text(lead, names) == [lead |-> lead, names |-> names]
Leads == {"/", "", ".", ".."}

LeadWidth(t) == CASE t.lead = "/" -> 1 [] t.lead = "" -> 0
                  [] t.lead = "." -> 2 [] t.lead = ".." -> 3
Width(t) ==
    LET upto[i \in 0 .. Len(t.names)] ==
            IF i = 0 THEN LeadWidth(t) - 1 ELSE upto[i - 1] + Len(t.names[i]) + 1
    IN  upto[Len(t.names)]

Joined(t, n, room) ==
    IF room < 1 THEN t
    ELSE Text(t.lead, Append(t.names, SubSeq(n, 1, IF Len(n) < room THEN Len(n) ELSE room)))

\* mutant: the name alone
JoinPath_NoDir(t, n) == Text("", <<n>>)

\* mutant: the name is not cut
JoinPath_NoCut(t, n) == Text(t.lead, Append(t.names, n))

\* mutant: one character less than the buffer has room for
JoinPath_OneShort(t, n) == Joined(t, n, MaxPath - Width(t) - 2)

\* mutant: a much smaller buffer
JoinPath_Small(t, n) == Joined(t, n, (MaxPath \div 4) - Width(t) - 1)

\* What fits is kept: the name may be cut, or not be there at all, and then
\* the path is that of the directory again.
JoinPath(t, n) == Joined(t, n, MaxPath - Width(t) - 1)

(***************************************************************************)
(* FatFs, ff.c.  A path is followed from the root or the current           *)
(* directory; "." and ".." are entries of every directory but the root.    *)
(***************************************************************************)
Origin(t) == CASE t.lead = "/" -> Root
               [] t.lead = ".." /\ cwd # Root -> Front(cwd)
               [] OTHER -> cwd
Place(t)  == Origin(t) \o t.names

IsDots(t)    == t.names = <<>> /\ t.lead \in {".", ".."}
Stat(t)      == IF t.names = <<>> THEN IsDots(t) /\ cwd # Root
                ELSE Place(t) \in DOMAIN tree
StatDir(t)   == Stat(t) /\ IsDir(Place(t))
CanCreate(t) == /\ t.names # <<>>
                /\ IsDir(Front(Place(t)))
                /\ Place(t) \notin DOMAIN tree

CanUnlink(t) ==
    /\ Stat(t) /\ ~IsDots(t)
    /\ tree[Place(t)] \notin ReadOnly
    /\ tree[Place(t)] \in DirKinds => Place(t) # cwd /\ Kids(Place(t)) = {}

Unlinked(t) == [p \in DOMAIN tree \ {Place(t)} |-> tree[p]]

\* f_unlink: the outcome, and the tree after it.  The disk may fail before
\* or after the entry is gone.
Unlink(t, ok) ==
    \/ CanUnlink(t) /\ ok /\ tree' = Unlinked(t)
    \/ ~CanUnlink(t) /\ ~ok /\ UNCHANGED tree
    \/ faults /\ ~ok /\ UNCHANGED tree
    \/ faults /\ ~ok /\ CanUnlink(t) /\ tree' = Unlinked(t)

(***************************************************************************)
(* The commands.                                                           *)
(***************************************************************************)
Frame(t, phase, left) == [text |-> t, phase |-> phase, left |-> left]
Result(cmd, t, ok)    == [cmd |-> cmd, text |-> t, ok |-> ok]
NoResult == Result("none", Text("", <<>>), TRUE)

Init ==
    /\ \E S \in SUBSET {<<n>> : n \in Names} :
          Cardinality(S) <= MaxNodes /\ tree \in [S -> Kinds]
    /\ cwd = Root
    /\ stack = <<>>
    /\ overrun = FALSE
    /\ start = Empty
    /\ result = NoResult
    /\ faults \in BOOLEAN

Prompt == stack = <<>>

\* mkdir and mkfile: an entry of kind k, or a message.
Make(t, k) ==
    /\ Prompt
    /\ Cardinality(DOMAIN tree) < MaxNodes
    /\ Len(Place(t)) <= MaxDepth
    /\ \/ /\ CanCreate(t)
          /\ tree' = [p \in DOMAIN tree \cup {Place(t)} |->
                          IF p = Place(t) THEN k ELSE tree[p]]
       \/ (faults \/ ~CanCreate(t)) /\ UNCHANGED tree
    /\ result' = NoResult /\ start' = Empty
    /\ UNCHANGED <<cwd, stack, overrun, faults>>

MakeDir(t)  == Make(t, "dir")
MakeFile(t) == Make(t, "file")

\* cd; only FR_NO_PATH has a message.
Cd(t) ==
    /\ Prompt
    /\ \/ IsDir(Place(t)) /\ cwd' = Place(t)
       \/ (faults \/ ~IsDir(Place(t))) /\ UNCHANGED cwd
    /\ result' = NoResult /\ start' = Empty
    /\ UNCHANGED <<tree, stack, overrun, faults>>

\* rm without -r: what f_stat does not find, and directories, are refused.
RmFile(t) ==
    /\ Prompt
    /\ start' = Empty
    /\ \/ /\ faults \/ ~Stat(t) \/ StatDir(t)
          /\ result' = Result("rm", t, FALSE)
          /\ UNCHANGED tree
       \/ /\ Stat(t) /\ ~StatDir(t)
          /\ \E ok \in BOOLEAN :
                Unlink(t, ok) /\ result' = Result("rm", t, ok)
    /\ UNCHANGED <<cwd, stack, overrun, faults>>

RmRecursive(t) ==
    /\ Prompt
    /\ stack' = <<Frame(t, "stat", {})>>
    /\ start' = tree
    /\ result' = NoResult
    /\ UNCHANGED <<tree, cwd, overrun, faults>>

(***************************************************************************)
(* rm_recursive.                                                           *)
(***************************************************************************)
Running == stack # <<>> /\ ~overrun
top     == stack[Len(stack)]
operand == stack[1].text

\* A call returns FR_OK: the loop of its caller goes on.
ReturnOk ==
    /\ stack' = Front(stack)
    /\ result' = IF Len(stack) = 1 THEN Result("rm_r", operand, TRUE) ELSE NoResult

\* mutant: the result of the call for an entry is not looked at
ReturnError_Ignored ==
    /\ stack' = Front(stack)
    /\ result' = IF Len(stack) = 1 THEN Result("rm_r", operand, TRUE) ELSE NoResult

\* A call returns an error: so does every caller, without another entry.
ReturnError ==
    /\ stack' = <<>>
    /\ result' = Result("rm_r", operand, FALSE)

UnlinkTop ==
    \E ok \in BOOLEAN :
        Unlink(top.text, ok) /\ IF ok THEN ReturnOk ELSE ReturnError

\* f_stat or f_opendir fails.
NotFound ==
    /\ Running
    /\ top.phase = "stat"
    /\ faults \/ ~Stat(top.text)
    /\ ReturnError
    /\ UNCHANGED <<tree, cwd, overrun, start, faults>>

\* Not a directory: it is removed.
RemoveFile ==
    /\ Running
    /\ top.phase = "stat"
    /\ Stat(top.text) /\ ~StatDir(top.text)
    /\ UnlinkTop
    /\ UNCHANGED <<cwd, overrun, start, faults>>

OpenDir ==
    /\ Running
    /\ top.phase = "stat"
    /\ StatDir(top.text)
    /\ stack' = Append(Front(stack), Frame(top.text, "loop", Kids(Place(top.text))))
    /\ UNCHANGED <<tree, cwd, overrun, start, result, faults>>

\* f_readdir gives the entries in the order of their slots, those that have
\* gone meanwhile left out.
Left == top.left \cap Kids(Place(top.text))

ReadEntry ==
    /\ Running
    /\ top.phase = "loop"
    /\ \E n \in Left :
          LET frame == Frame(top.text, "loop", Left \ {n})
          IN  IF Len(stack) = StackFrames
              THEN overrun' = TRUE /\ UNCHANGED stack
              ELSE /\ stack' = Append(Append(Front(stack), frame),
                                      Frame(JoinPath(top.text, n), "stat", {}))
                   /\ UNCHANGED overrun
    /\ UNCHANGED <<tree, cwd, start, result, faults>>

ReadFails ==
    /\ Running
    /\ top.phase = "loop"
    /\ faults
    /\ ReturnError
    /\ UNCHANGED <<tree, cwd, overrun, start, faults>>

RemoveDir ==
    /\ Running
    /\ top.phase = "loop"
    /\ Left = {}
    /\ UnlinkTop
    /\ UNCHANGED <<cwd, overrun, start, faults>>

RemoveStep == NotFound \/ RemoveFile \/ OpenDir \/ ReadEntry \/ ReadFails \/ RemoveDir

\* bound: what is typed has at most one name.
Typed == {t \in [lead : Leads, names : {<<>>} \cup {<<n>> : n \in Names}] :
              t.lead # "" \/ t.names # <<>>}

Commands ==
    \E t \in Typed : MakeDir(t) \/ MakeFile(t) \/ Cd(t) \/ RmFile(t) \/ RmRecursive(t)

Next == Commands \/ RemoveStep

Spec     == Init /\ [][Next]_vars
FairSpec == Spec /\ WF_vars(RemoveStep)

(***************************************************************************)
(* Properties.                                                             *)
(***************************************************************************)
Under(q, p) == IsPrefix(q, p)

\* The current directory is in the tree, whatever is removed around it (f_unlink,
\* ff.c:5135).
CwdAlive == IsDir(cwd)

\* The type of the tree and of the running calls; every path in subpath[]
\* fits in it (join_path, fshelpers.c:160).
TypeOK ==
    /\ CwdAlive
    /\ \A p \in DOMAIN tree : tree[p] \in Kinds /\ IsDir(Front(p))
    /\ Len(stack) <= StackFrames
    /\ \A i \in 1 .. Len(stack) :
          /\ stack[i].phase \in {"stat", "loop"}
          /\ stack[i].left \subseteq Names
          /\ i > 1 => Width(stack[i].text) <= MaxPath
    /\ overrun \in BOOLEAN
    /\ result.cmd \in {"none", "rm", "rm_r"} /\ result.ok \in BOOLEAN

\* What disappears while rm -r runs was below its operand, however long the
\* paths get and wherever they are cut (rm_recursive, fshelpers.c:201).
OnlySubtree ==
    [][~Prompt => \A p \in DOMAIN tree \ DOMAIN tree' : Under(Place(operand), p)]_vars

\* "Directory removed." and "File removed." are true: nothing is left of the
\* operand (kernel.c:686 and 698).
RemovedMeansGone ==
    (result.cmd # "none" /\ result.ok) =>
        \A p \in DOMAIN tree : ~Under(Place(result.text), p)

\* The path by which rm -r of t comes to p.
PathTo(t, p) == Text(t.lead, t.names \o SubSeq(p, Len(Place(t)) + 1, Len(p)))

\* With a disk that does not fail, rm -r fails only for an operand that is
\* missing or "." or "..", a read-only file or directory, the current directory,
\* or a path longer than subpath[] (rm_recursive, fshelpers.c:174; ff.c:5114).
Reason(t) ==
    \/ IsDots(t)
    \/ Place(t) \notin DOMAIN start
    \/ \E p \in DOMAIN start :
          /\ Under(Place(t), p)
          /\ \/ start[p] \in ReadOnly
             \/ p = cwd
             \/ MaxPath < Width(PathTo(t, p))
FailureExplained ==
    (result.cmd = "rm_r" /\ ~result.ok /\ ~faults) => Reason(result.text)

\* rm -r comes back to the prompt if each directory with entries leaves room in
\* subpath[] for a letter of their names, and the calls fit on the stack
\* (rm_recursive, fshelpers.c:174 and 209).  Without the first it never does.
LeavesRoom ==
    \A p \in DOMAIN start :
        Under(Place(operand), p) =>
            /\ Len(p) - Len(Place(operand)) < StackFrames
            /\ p # Place(operand) => Width(PathTo(operand, Front(p))) + 1 < MaxPath
CommandReturns == (~Prompt /\ LeavesRoom) ~> Prompt

\* rm -r deletes the directory it is given, or says that it could not: its
\* calls fit on the stack of the kernel (kernel.c:337, boot.asm:32).
StackSuffices == ~overrun
=============================================================================
