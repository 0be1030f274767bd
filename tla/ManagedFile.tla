---------------------------- MODULE ManagedFile ----------------------------
(***************************************************************************)
(* Files of the user that the installer writes into (filigrio-install):    *)
(* a marked block in a git hook or in AGENTS.md (block.rs, hooks.rs,        *)
(* docs.rs), and a completion file that is ours as a whole, if it carries   *)
(* our marker (completions.rs).  The destination may be a symbolic link    *)
(* into somebody's dotfiles (write_all, remove_file of lib.rs).             *)
(*                                                                         *)
(* A text is a sequence of words and newlines; white space at the ends of   *)
(* a line is left out.  "start" and "end" are the markers, a version what  *)
(* install writes between them, the other words are the user's.            *)
(***************************************************************************)
EXTENDS Integers, FiniteSets, SequencesExt

CONSTANTS
    NL,         \* the newline
    Versions,   \* of what install writes: a socket, a path of the binary
    Words,      \* the user's
    Layouts,    \* what the user may have at the destination: path -> Gone, link or file
    Gone,       \* no file
    Altered,    \* not what install found
    MaxAlterations  \* bound: what the user and upgrades do

Dest == "here"
Paths == {Dest, "middle", "far"}

Tokens == {NL, "start", "end", "shebang"} \cup Versions \cup Words
LinkEntries == [to : Paths]
FileEntries == [text : Seq(Tokens), exec : BOOLEAN]

ASSUME ManagedAssumption ==
    /\ NL \notin {"start", "end", "shebang"} \cup Versions \cup Words
    /\ Versions # {} /\ Versions \cap ({"start", "end", "shebang"} \cup Words) = {}
    /\ Words \cap {"start", "end", "shebang"} = {}
    /\ Gone \notin LinkEntries \cup FileEntries \cup [text : Seq(Tokens)]
    /\ Altered \notin {Gone} \cup [text : Seq(Tokens)]
    /\ Layouts \subseteq [Paths -> {Gone} \cup LinkEntries \cup FileEntries]

VARIABLES
    kind,     \* what is installed: a hook, a doc, a completion
    fs,       \* path -> Gone, a link or a file
    dirless,  \* the directory of the far end does not exist
    version,  \* of this build
    unmoded,  \* an install that has written and not set the mode yet
    original, \* history: what install found, until the user touches it
    fresh,    \* history: the last step ended an install
    alterations   \* history: by the user, and upgrades

managedVars == <<kind, fs, dirless, version, unmoded, original, fresh, alterations>>

File(text, exec) == [text |-> text, exec |-> exec]
Symlink(p) == [to |-> p]
IsSymlink(p) == fs[p] # Gone /\ DOMAIN fs[p] = {"to"}
Blank(text) == ToSet(text) \subseteq {NL}

-----------------------------------------------------------------------------
(* block.rs *)

\* A line that consists of the word at i.
WholeLine(c, i) == (i = 1 \/ c[i-1] = NL) /\ (i = Len(c) \/ c[i+1] = NL)

\* Mutation: a marker counts wherever it is mentioned.
LinesOfAnywhere(c, word) == {i \in DOMAIN c : c[i] = word}

LinesOf(c, word) == {i \in DOMAIN c : c[i] = word /\ WholeLine(c, i)}

HasBlock(c) == LinesOf(c, "start") # {}

\* find: the first start, up to the end that follows it, and its newline, or to the end of the file.
From(c) == Min(LinesOf(c, "start"))
Stop(c) ==
    LET ends == {i \in LinesOf(c, "end") : i > From(c)}
    IN  IF ends = {} THEN Len(c) + 1 ELSE Min(ends)
Upto(c) == IF Stop(c) < Len(c) THEN Stop(c) + 1 ELSE Len(c)

Above(c) == SubSeq(c, 1, From(c) - 1)
Below(c) == SubSeq(c, Upto(c) + 1, Len(c))

\* The loop of strip_all: a round takes out a block, and there are fewer of them than words.
CutBlock(c) == IF HasBlock(c) THEN Above(c) \o Below(c) ELSE c
StripAll(c) ==
    LET rounds[n \in 0 .. Len(c)] == IF n = 0 THEN c ELSE CutBlock(rounds[n - 1])
    IN  rounds[Len(c)]

\* body_of, trimmed, is one word.
OnlyWord(c, from, to, word) ==
    \E i \in from .. to : c[i] = word /\ \A j \in (from .. to) \ {i} : c[j] = NL
BodyIs(c, v) == OnlyWord(c, From(c) + 1, Stop(c) - 1, v)

Block(v) == <<"start", NL, v, NL, "end", NL>>

\* Mutation: no blank line in between.
AppendClose(c, v) == (IF c = <<>> \/ Last(c) = NL THEN c ELSE Append(c, NL)) \o Block(v)

AppendBlock(c, v) ==
    IF c = <<>> THEN Block(v)
    ELSE (IF Last(c) = NL THEN c ELSE Append(c, NL)) \o <<NL>> \o Block(v)

Upsert(c, v) ==
    IF HasBlock(c) THEN Above(c) \o Block(v) \o StripAll(Below(c)) ELSE AppendBlock(c, v)

\* remove: one newline before the block is the one that was put there.
RemoveBlock(c) ==
    LET head == Above(c)
    IN  (IF head # <<>> /\ Last(head) = NL THEN Front(head) ELSE head) \o StripAll(Below(c))

-----------------------------------------------------------------------------
(* lib.rs: reading and writing through links *)

\* Where a chain of links ends, which is a link only if they form a loop.
Hop == [p \in Paths |-> IF IsSymlink(p) THEN fs[p].to ELSE p]
End(path) == Hop[Hop[Hop[path]]]

Readable(path) == ~ IsSymlink(End(path))
Exists(path) == Readable(path) /\ fs[End(path)] # Gone
TextAt(path) == IF Exists(path) THEN fs[End(path)].text ELSE <<>>

\* through_symlinks: a far end to be created needs its directory.
Writable(path) == Readable(path) /\ (Exists(path) \/ End(path) = path \/ ~ dirless)

\* Mutation: the file is renamed over the link.
WriteAllOver(path, text) ==
    fs' = [fs EXCEPT ![path] = File(text, Exists(path) /\ fs[End(path)].exec)]

\* The mode is the file's, a new one is not executable.
WriteAll(path, text) ==
    fs' = [fs EXCEPT ![End(path)] = File(text, Exists(path) /\ fs[End(path)].exec)]

\* A link is not ours to delete, nor is what it leads to.
RemoveFile(path) ==
    IF IsSymlink(path) THEN WriteAll(path, <<>>) ELSE fs' = [fs EXCEPT ![path] = Gone]

-----------------------------------------------------------------------------
(* The verbs *)

Current == TextAt(Dest)

\* is_ours, is_a_strangers of a completion file.
IsOurs(c) == LinesOf(c, "start") # {}
IsAStrangers(c) == ~ Blank(c) /\ ~ IsOurs(c)

\* What install leaves at the destination.
Installed ==
    CASE kind = "completion"                     -> Block(version)
      [] kind = "hook" /\ ~ Exists(Dest) -> Upsert(<<"shebang", NL>>, version)
      [] OTHER                                   -> Upsert(Current, version)

\* Mutation: the mode is repaired with the text only.
SetsModeIfWritten == kind = "hook" /\ Installed # Current

\* make_executable follows, whether the text has changed or not.
SetsMode == kind = "hook"

Install ==
    /\ ~ unmoded /\ Writable(Dest)
    /\ kind = "completion" => ~ IsAStrangers(Current)
    /\ IF Exists(Dest) /\ Installed = Current THEN UNCHANGED fs
       ELSE WriteAll(Dest, Installed)
    /\ unmoded' = SetsMode /\ fresh' = ~ SetsMode
    /\ original' = IF HasBlock(Current) THEN original
                   ELSE IF Exists(Dest) THEN [text |-> Current] ELSE Gone
    /\ UNCHANGED <<kind, dirless, version, alterations>>

MakeExecutable ==
    /\ unmoded /\ unmoded' = FALSE /\ fresh' = TRUE
    /\ fs' = [fs EXCEPT ![End(Dest)].exec = TRUE]
    /\ UNCHANGED <<kind, dirless, version, original, alterations>>

\* The process dies in between.
Die ==
    /\ unmoded /\ unmoded' = FALSE /\ fresh' = FALSE
    /\ UNCHANGED <<kind, fs, dirless, version, original, alterations>>

\* A file that holds nothing but ours goes.
EmptyMeansOurs(c) ==
    Blank(c) \/ (kind = "hook" /\ OnlyWord(c, 1, Len(c), "shebang"))

Uninstall ==
    /\ ~ unmoded /\ Exists(Dest) /\ HasBlock(Current) /\ fresh' = FALSE
    /\ IF kind = "completion" \/ EmptyMeansOurs(RemoveBlock(Current)) THEN RemoveFile(Dest)
       ELSE WriteAll(Dest, RemoveBlock(Current))
    /\ UNCHANGED <<kind, dirless, version, unmoded, original, alterations>>

\* status, of a text and its mode.
Status(c, exec) ==
    CASE ~ HasBlock(c) -> "absent"
      [] kind = "completion" /\ c = Block(version) -> "current"
      [] kind # "completion" /\ BodyIs(c, version) /\ (kind = "hook" => exec) -> "current"
      [] OTHER -> "stale"

-----------------------------------------------------------------------------
(* The user *)

MayAlter ==
    ~ unmoded /\ alterations < MaxAlterations /\ alterations' = alterations + 1 /\ fresh' = FALSE

\* The places where a line begins.
Starts(c) == {1} \cup {i + 1 : i \in {j \in DOMAIN c : c[j] = NL}}

InsertLine(w) ==
    /\ MayAlter /\ Exists(Dest)
    /\ \E i \in Starts(Current) :
          WriteAll(Dest, SubSeq(Current, 1, i - 1) \o <<w, NL>> \o SubSeq(Current, i, Len(Current)))
    /\ original' = Altered
    /\ UNCHANGED <<kind, dirless, version, unmoded>>

DeleteLine ==
    /\ MayAlter /\ Exists(Dest)
    /\ \E i \in Starts(Current) :
          /\ i <= Len(Current)
          /\ LET last == Min({j \in i .. Len(Current) : Current[j] = NL} \cup {Len(Current)})
             IN  WriteAll(Dest, SubSeq(Current, 1, i - 1) \o SubSeq(Current, last + 1, Len(Current)))
    /\ original' = Altered
    /\ UNCHANGED <<kind, dirless, version, unmoded>>

\* A tarball, a `chmod -R`, a filesystem without the bit.
LoseMode ==
    /\ MayAlter /\ Exists(Dest) /\ fs[End(Dest)].exec
    /\ fs' = [fs EXCEPT ![End(Dest)].exec = FALSE]
    /\ UNCHANGED <<kind, dirless, version, unmoded, original>>

Upgrade ==
    /\ MayAlter /\ version' \in Versions \ {version}
    /\ UNCHANGED <<kind, fs, dirless, unmoded, original>>

ManagedInit ==
    /\ kind \in {"hook", "doc", "completion"} /\ fs \in Layouts
    /\ dirless \in BOOLEAN /\ (dirless => fs["far"] = Gone)
    /\ version = CHOOSE v \in Versions : TRUE
    /\ unmoded = FALSE /\ fresh = FALSE /\ original = Altered /\ alterations = 0

ManagedNext ==
    \/ Install \/ MakeExecutable \/ Die \/ Uninstall
    \/ (\E w \in Words : InsertLine(w)) \/ DeleteLine \/ LoseMode \/ Upgrade

\* Type invariant: links are the user's, and no install is under way at a file that is not there.
ManagedTypeOK ==
    /\ \A p \in Paths : IsSymlink(p) \/ fs[p] = Gone \/ DOMAIN fs[p] = {"text", "exec"}
    /\ version \in Versions /\ alterations \in 0 .. MaxAlterations
    /\ unmoded => kind = "hook" /\ fs[End(Dest)] # Gone

ManagedSpec == ManagedInit /\ [][ManagedNext]_managedVars

-----------------------------------------------------------------------------
(* Properties *)

\* The user's words in their order, each with whether it still has its line to itself.
UserPlaces(c) == {i \in DOMAIN c : c[i] \in Words}
UserView(c) ==
    {<<Cardinality({j \in UserPlaces(c) : j < i}), c[i], WholeLine(c, i)>> : i \in UserPlaces(c)}

\* Every start marker has its end, and nothing of the user is in between.
Intact(c) ==
    \A s \in LinesOf(c, "start") : \E e \in LinesOf(c, "end") :
        e > s /\ \A i \in s + 1 .. e - 1 : c[i] \notin Words \cup {"start"}

\* The blank line before the block is gone, and there is text below the block.
Adjoining(c) ==
    HasBlock(c) /\ From(c) > 2 /\ c[From(c) - 2] # NL /\ StripAll(Below(c)) # <<>>

(***************************************************************************)
(* What the user wrote around our blocks survives, line by line, however    *)
(* often it is installed, upgraded and uninstalled, with stray blocks, with *)
(* our markers mentioned in prose, and through links, which stay (block.rs, *)
(* "everything the user wrote around it survives").  Not so with a block    *)
(* whose end was deleted, which reaches to the end of the file, nor if the  *)
(* blank line above the block was deleted and text follows the block: then  *)
(* the newline that goes was the user's, and two of his lines become one.   *)
(***************************************************************************)
UserLinesSurvive ==
    [][Install \/ Uninstall =>
         /\ \A p \in Paths : IsSymlink(p) => fs'[p] = fs[p]
         /\ \A was \in {Current}, is \in {Current'} :
              kind # "completion" /\ Intact(was) /\ ~ Adjoining(was) => UserView(is) = UserView(was)]_managedVars

(***************************************************************************)
(* Uninstalling gives back what installing found, with a newline at its     *)
(* end, after upgrades as well: the same text, or no file where there was   *)
(* none or only the start of one (block.rs, "byte-exactness").              *)
(***************************************************************************)
UninstallRestores ==
    [][Uninstall /\ original # Altered =>
         IF original = Gone \/ (original # Gone /\ EmptyMeansOurs(original.text))
         THEN \A is \in {Current'} : Blank(is) /\ (fs'[End(Dest)] # Gone => IsSymlink(Dest))
         ELSE Current' = original.text \o (IF Last(original.text) = NL THEN <<>> ELSE <<NL>>)]_managedVars

(***************************************************************************)
(* An install that runs to its end leaves exactly one block, of this        *)
(* version, which status calls current and git would run, whatever it       *)
(* found: a file without its mode, several blocks, half of one, what an      *)
(* install that died has left (hooks.rs, "install is idempotent, so the     *)
(* repair is to put it right and run it again").                            *)
(***************************************************************************)
InstallRepairs ==
    fresh => LET file == fs[End(Dest)]
             IN  /\ Status(file.text, file.exec) = "current"
                 /\ Cardinality(LinesOf(file.text, "start")) = 1
=============================================================================
