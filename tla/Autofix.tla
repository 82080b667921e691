------------------------------ MODULE Autofix ------------------------------
(***************************************************************************)
(* Autofix of a patch: preview, apply and rollback of                       *)
(* app/routes/patchwise.py, driven by the page (app/static/js/patchwise.js).*)
(*                                                                         *)
(* A text is its sequence of lines, what stands between newlines.  A line   *)
(* is what the fixes tell apart: what kind it is and whether blanks end it. *)
(* A file also has bytes that no text shows: line ends other than a newline,*)
(* or bytes that are not UTF-8.  To read it gives the text without them, to *)
(* write a text makes a file without them.                                  *)
(*                                                                         *)
(* The page, the disk and the backup directory are three places for a text; *)
(* a backup is found through a dictionary in memory, and its file name is   *)
(* made of parts of the session id and the path and of the second.          *)
(***************************************************************************)
EXTENDS Naturals, FiniteSets, Sequences, SequencesExt

CONSTANTS
  Editors,      \* sessions of the page
  Paths,        \* files they may open
  BaseNameOf(_),\* the last part of a path, as secure_filename leaves it
  SafeNameOf(_),\* a session id, as secure_filename leaves it
  Texts,        \* texts users write
  Selections,   \* fixes a user may select: subsets of Fixes
  MaxSeconds,   \* bound on the clock
  MaxOutside    \* bound on edits, writes of others and restarts

Fixes == {"trim", "compact", "printk", "eof"}
Kinds == {"empty", "code", "printk", "pr_err", "header", "added"}
NoText == <<>>   \* a text has at least one line
Lines == [kind : Kinds, blanks : BOOLEAN]

Files == [text : Seq(Lines), foreign : BOOLEAN]
Plain(text) == [text |-> text, foreign |-> FALSE]   \* a text just written
NoFile == Plain(NoText)
FilesOfUsers == [text : Texts, foreign : BOOLEAN]

ASSUME AutofixAssumption ==
  /\ Texts \subseteq Seq(Lines) \ {NoText}
  /\ Selections \subseteq (SUBSET Fixes) \ {{}}
  /\ MaxSeconds \in Nat /\ MaxOutside \in Nat

VARIABLES
  page,      \* the text in the editor of a session
  disk,      \* the files
  stored,    \* the backup files: [session, name, second] -> text
  latest,    \* _autofix_backups: session and path -> backup file
  second,    \* the clock
  outside,
  tidy       \* the fixes that made what a file holds, {} when something else did

autofixVars == <<page, disk, stored, latest, second, outside, tidy>>

(***************************************************************************)
(* _apply_autofixes                                                         *)
(***************************************************************************)
IsDiff(text) == \E k \in DOMAIN text : text[k].kind = "header"
Blank(line) == line.kind = "empty" /\ ~line.blanks

TrimTrailingWhitespace(text) ==
  [k \in DOMAIN text |->
     IF IsDiff(text) /\ text[k].kind # "added" THEN text[k]
     ELSE [text[k] EXCEPT !.blanks = FALSE]]

\* Three newlines in a row become two: the line between the last two goes.
Extra(text, k) == k \in 3 .. Len(text) - 1 /\ Blank(text[k]) /\ Blank(text[k - 1])

\* The n-th element of a set of numbers.
Nth(S, n) == CHOOSE k \in S : Cardinality({i \in S : i <= k}) = n

CompactBlankLines(text) ==
  LET kept == {k \in DOMAIN text : ~Extra(text, k)}
  IN  [n \in 1 .. Cardinality(kept) |-> text[Nth(kept, n)]]

ModernizePrintk(text) ==
  [k \in DOMAIN text |->
     IF text[k].kind = "printk" THEN [text[k] EXCEPT !.kind = "pr_err"] ELSE text[k]]

EnsureEofNewline(text) ==
  IF Blank(Last(text)) THEN text
  ELSE Append(text, [kind |-> "empty", blanks |-> FALSE])

\* Mutant: blank lines are compacted before blanks are trimmed.
ApplyInListOrder(text, chosen) ==
  LET plain == ~IsDiff(text)
      compact == IF "compact" \in chosen /\ plain THEN CompactBlankLines(text) ELSE text
      trimmed == IF "trim" \in chosen THEN TrimTrailingWhitespace(compact) ELSE compact
      modern == IF "printk" \in chosen /\ plain THEN ModernizePrintk(trimmed) ELSE trimmed
  IN  IF "eof" \in chosen THEN EnsureEofNewline(modern) ELSE modern

ApplyAutofixes(text, chosen) ==
  LET plain == ~IsDiff(text)
      trimmed == IF "trim" \in chosen THEN TrimTrailingWhitespace(text) ELSE text
      compact == IF "compact" \in chosen /\ plain THEN CompactBlankLines(trimmed) ELSE trimmed
      modern == IF "printk" \in chosen /\ plain THEN ModernizePrintk(compact) ELSE compact
  IN  IF "eof" \in chosen THEN EnsureEofNewline(modern) ELSE modern

\* Two sessions may have one safe name, and two paths one base name.
BackupName(s, p) ==
  [session |-> SafeNameOf(s), name |-> BaseNameOf(p), second |-> second]

\* _create_backup writes the file, over another one of that name.
Keep(backup, text) ==
  stored' = [b \in DOMAIN stored \cup {backup} |->
               IF b = backup THEN text ELSE stored[b]]

----------------------------------------------------------------------------
AutofixInit ==
  /\ disk \in [Paths -> FilesOfUsers]
  /\ page = [s \in Editors |-> NoText]
  /\ stored = [b \in {} |-> NoText]
  /\ latest = [k \in {} |-> <<>>]
  /\ second = 0 /\ outside = 0
  /\ tidy = [p \in Paths |-> {}]

OpenFile(s, p) ==
  /\ disk[p] # NoFile /\ page[s] # disk[p].text
  /\ page' = [page EXCEPT ![s] = disk[p].text]
  /\ UNCHANGED <<disk, stored, latest, second, outside, tidy>>

\* A request of nothing but blanks is refused.
Worked(text) == \E k \in DOMAIN text : text[k].kind # "empty"

\* The text of a request, and what is to become of it; fixes that change nothing
\* change no file either.
Changes(given, chosen) == Worked(given) /\ ApplyAutofixes(given, chosen) # given

\* The fixed text goes to a path.  The text is the page's, or that of the file
\* when the request names it only, and is what the backup holds; the page hears
\* the answer or not.
ApplyAutofix(s, p, chosen) ==
  \E given \in {page[s], disk[p].text}, heard \in BOOLEAN :
    LET fixed == ApplyAutofixes(given, chosen)
        backup == BackupName(s, p)
        key == <<s, p>>
    IN  /\ Changes(given, chosen)
        /\ disk' = [disk EXCEPT ![p] = Plain(fixed)]
        /\ tidy' = [tidy EXCEPT ![p] = chosen]
        /\ page' = IF heard THEN [page EXCEPT ![s] = fixed] ELSE page
        /\ IF disk[p] = NoFile
           THEN UNCHANGED <<stored, latest>>
           ELSE /\ Keep(backup, given)
                /\ latest' = [k \in DOMAIN latest \cup {key} |->
                                IF k = key THEN backup ELSE latest[k]]
        /\ UNCHANGED <<second, outside>>

\* Without a path the page alone gets the fixed text.
ApplyToPage(s, chosen) ==
  /\ Changes(page[s], chosen)
  /\ page' = [page EXCEPT ![s] = ApplyAutofixes(page[s], chosen)]
  /\ UNCHANGED <<disk, stored, latest, second, outside, tidy>>

\* The dictionary knows a backup, and copyfile puts it in the file's place.
RollbackAutofix(s, p) ==
  /\ <<s, p>> \in DOMAIN latest
  /\ LET restored == stored[latest[<<s, p>>]]
     IN  /\ disk' = [disk EXCEPT ![p] = Plain(restored)]
         /\ page' = [page EXCEPT ![s] = restored]
  /\ tidy' = [tidy EXCEPT ![p] = {}]
  /\ UNCHANGED <<stored, latest, second, outside>>

Tick ==
  /\ second < MaxSeconds
  /\ second' = second + 1
  /\ UNCHANGED <<page, disk, stored, latest, outside, tidy>>

(* What others do: the user types, a file changes or goes, the server starts *)
(* again and forgets where the backups are.                                  *)
Types(s, text) ==
  /\ page[s] # text
  /\ page' = [page EXCEPT ![s] = text]
  /\ UNCHANGED <<disk, stored, latest, tidy>>

WriteOutside(p, file) ==
  /\ disk[p] # file
  /\ disk' = [disk EXCEPT ![p] = file]
  /\ tidy' = [tidy EXCEPT ![p] = {}]
  /\ UNCHANGED <<page, stored, latest>>

RestartAutofix ==
  /\ latest' = [k \in {} |-> <<>>]
  /\ UNCHANGED <<page, disk, stored, tidy>>

Outside ==
  /\ outside < MaxOutside
  /\ outside' = outside + 1
  /\ \/ \E s \in Editors, text \in Texts : Types(s, text)
     \/ \E p \in Paths, file \in FilesOfUsers \cup {NoFile} : WriteOutside(p, file)
     \/ RestartAutofix
  /\ UNCHANGED second

AutofixNext ==
  \/ \E s \in Editors, p \in Paths : OpenFile(s, p)
  \/ \E s \in Editors, p \in Paths, chosen \in Selections : ApplyAutofix(s, p, chosen)
  \/ \E s \in Editors, chosen \in Selections : ApplyToPage(s, chosen)
  \/ \E s \in Editors, p \in Paths : RollbackAutofix(s, p)
  \/ Tick
  \/ Outside

AutofixSpec == AutofixInit /\ [][AutofixNext]_autofixVars

----------------------------------------------------------------------------
AutofixTypeOK ==
  /\ page \in [Editors -> Seq(Lines)]
  /\ disk \in [Paths -> Files]
  /\ tidy \in [Paths -> SUBSET Fixes]
  /\ \A b \in DOMAIN stored : stored[b] \in Seq(Lines) \ {NoText}
  /\ DOMAIN latest \subseteq Editors \X Paths
  /\ \A k \in DOMAIN latest : latest[k] \in DOMAIN stored
  /\ second \in 0 .. MaxSeconds /\ outside \in 0 .. MaxOutside

\* What the fixes have left on disk they leave alone when asked again: no fix
\* makes work for one that runs before it, and no file has lines that a second
\* read takes for others.  (_apply_autofixes, patchwise.py:504)
AutofixSettles ==
  \A p \in Paths : tidy[p] # {} =>
    ~disk[p].foreign /\ ApplyAutofixes(disk[p].text, tidy[p]) = disk[p].text
=============================================================================
