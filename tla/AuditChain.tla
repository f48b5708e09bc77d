----------------------------- MODULE AuditChain -----------------------------
(***************************************************************************)
(* The hash-chained order log of src/trading/execution/audit.py:           *)
(* audit_log_order as several writers (the API server, the scheduler, the  *)
(* CLI, the execution loop) run it on one directory without any lock, and  *)
(* verify_audit_chain.                                                     *)
(*                                                                         *)
(* An entry is a number, given when it is built; it stands for the entry's *)
(* content and, the hash being collision free, for its _hash.  0 is the    *)
(* empty _prev_hash.  The files are those of one month: file 0 is the live *)
(* one, file k the rotated one with suffix _k.  The size of a file is its  *)
(* number of lines.                                                        *)
(*                                                                         *)
(* audit_log_order awaits nothing and holds nothing: another process may   *)
(* run between building the entry, looking for a free name, renaming the   *)
(* file and appending the line, and each of these is an action.            *)
(***************************************************************************)
EXTENDS Integers, Sequences, FiniteSets, SequencesExt

CONSTANTS
  Writer,      \* the processes that write audit entries
  RotateAbove, \* MAX_AUDIT_BYTES, in lines
  MaxEntries,  \* bound: entries built
  MaxTears     \* bound: writes that stop within their line

ASSUME AuditAssumption ==
  /\ IsFiniteSet(Writer)
  /\ RotateAbove \in Nat
  /\ MaxEntries \in Nat
  /\ MaxTears \in Nat

VARIABLES
  file,    \* the directory: [0 .. MaxEntries -> file]
  pc,      \* where each writer is in audit_log_order
  entry,   \* the entry it has built: [id, prev]
  name,    \* the free name it has found for the rotated file
  built,   \* entries built so far
  written, \* history: entries whose line reached the file to its last byte
  acked,   \* history: those of them whose write returned without an error
  tears,   \* history: writes that stopped within their line
  overlap  \* history: two writers have been about to rename at the same time

history == <<written, acked, tears, overlap>>
vars == <<file, pc, entry, name, built, history>>

Names == 1 .. MaxEntries
Id == 1 .. MaxEntries
Entry == [id : Id, prev : 0 .. MaxEntries]
\* A line that starts with the rest of a failed write cannot be parsed; if that
\* rest ends inside a multi-byte character it cannot even be decoded.
Line == [kind : {"json", "garbled", "undecodable"}, id : Id, prev : 0 .. MaxEntries]
\* How the file ends: with a line break, with the last line whole but for its line
\* break, or with part of a line, which may end inside a character.
Rest == {"none", "open", "cut", "midchar"}

Absent == [lines |-> <<>>, rest |-> "none", mtime |-> 0]
Exists(n) == file[n].lines # <<>> \/ file[n].rest # "none"

TypeOK ==
  /\ file \in [0 .. MaxEntries ->
                 [lines : Seq(Line), rest : Rest, mtime : Nat]]
  /\ pc \in [Writer -> {"idle", "look", "replace", "append"}]
  /\ entry \in [Writer -> Entry \cup {[id |-> 0, prev |-> 0]}]
  /\ name \in [Writer -> 0 .. MaxEntries]
  /\ built \in 0 .. MaxEntries
  /\ written \subseteq Id /\ acked \subseteq written
  /\ tears \in Nat
  /\ overlap \in BOOLEAN

Init ==
  /\ file = [n \in 0 .. MaxEntries |-> Absent]
  /\ pc = [w \in Writer |-> "idle"]
  /\ entry = [w \in Writer |-> [id |-> 0, prev |-> 0]]
  /\ name = [w \in Writer |-> 0]
  /\ built = 0
  /\ written = {} /\ acked = {}
  /\ tears = 0
  /\ overlap = FALSE

-----------------------------------------------------------------------------
(* _read_last_entry_hash                                                   *)

\* The search for the last line break before the end of the file runs off the
\* start when what it reads is the file's first line: OSError, no hash.
HasLineBefore ==
  Len(file[0].lines) + (IF file[0].rest \in {"cut", "midchar"} THEN 1 ELSE 0) >= 2

LastKind ==
  CASE file[0].rest = "cut" -> "garbled"
    [] file[0].rest = "midchar" -> "undecodable"
    [] file[0].rest \in {"none", "open"} -> Last(file[0].lines).kind

\* decode() raises a UnicodeDecodeError, which the handler does not name.
Undecodable == HasLineBefore /\ LastKind = "undecodable"

\* Mutant: the writer goes by what was built last, not by what is in the file.
LastBuilt == built

LastHash == IF HasLineBefore /\ LastKind = "json" THEN Last(file[0].lines).id ELSE 0

-----------------------------------------------------------------------------
(* audit_log_order                                                         *)

\* _build_audit_entry.  An exception leaves audit_log_order at once (its callers
\* log it): nothing is written and nothing changes.
Build(w) ==
  /\ pc[w] = "idle"
  /\ built < MaxEntries
  /\ ~ Undecodable
  /\ built' = built + 1
  /\ entry' = [entry EXCEPT ![w] = [id |-> built + 1, prev |-> LastHash]]
  /\ pc' = [pc EXCEPT ![w] = "look"]
  /\ UNCHANGED <<file, name, history>>

\* Mutant: the rotated file always takes the first name.
IsFirstName(n) == n = 1

IsFreeName(n) == ~ Exists(n) /\ \A k \in 1 .. n - 1 : Exists(k)

\* _rotate_if_needed, up to the name of the rotated file.
Look(w) ==
  /\ pc[w] = "look"
  /\ IF Len(file[0].lines) > RotateAbove
     THEN /\ \E n \in Names : IsFreeName(n) /\ name' = [name EXCEPT ![w] = n]
          /\ pc' = [pc EXCEPT ![w] = "replace"]
          /\ overlap' = (overlap \/ \E v \in Writer \ {w} : pc[v] = "replace")
     ELSE /\ pc' = [pc EXCEPT ![w] = "append"]
          /\ UNCHANGED <<name, overlap>>
  /\ UNCHANGED <<file, entry, built, written, acked, tears>>

\* os.replace overwrites a file of that name; without a live file it fails, which
\* is logged.
Replace(w) ==
  /\ pc[w] = "replace"
  /\ file' = IF Exists(0)
             THEN [file EXCEPT ![name[w]] = file[0], ![0] = Absent]
             ELSE file
  /\ pc' = [pc EXCEPT ![w] = "append"]
  /\ UNCHANGED <<entry, name, built, history>>

\* The line as it stands in the file, behind the rest of a failed write.
LineOf(e) ==
  [kind |-> CASE file[0].rest = "none" -> "json"
              [] file[0].rest \in {"open", "cut"} -> "garbled"
              [] file[0].rest = "midchar" -> "undecodable",
   id |-> e.id, prev |-> e.prev]

\* A line without its line break is no longer one by itself once something follows.
Closed == IF file[0].rest = "open" THEN Front(file[0].lines) ELSE file[0].lines

Now == Cardinality(written) + tears + 1

WriteLine(w, end) ==
  /\ file' = [file EXCEPT ![0] = [lines |-> Append(Closed, LineOf(entry[w])),
                                  rest |-> end, mtime |-> Now]]
  /\ written' = written \cup {entry[w].id}
  /\ pc' = [pc EXCEPT ![w] = "idle"]
  /\ UNCHANGED <<entry, name, built, overlap>>

\* Mutant: the entries are separated by commas, so the next line starts with one.
AppendWithComma(w) ==
  /\ pc[w] = "append"
  /\ WriteLine(w, "cut")
  /\ acked' = acked \cup {entry[w].id}
  /\ UNCHANGED tears

\* Open for appending, write the line, flush, fsync.
AppendLine(w) ==
  /\ pc[w] = "append"
  /\ WriteLine(w, "none")
  /\ acked' = acked \cup {entry[w].id}
  /\ UNCHANGED tears

\* fsync fails, or the process dies, when the line is already in the file.
AppendUnsynced(w) ==
  /\ pc[w] = "append"
  /\ WriteLine(w, "none")
  /\ UNCHANGED <<acked, tears>>

\* The disk is full or the process dies in the middle of the write.  The last byte
\* of a line is its line break; behind the rest of another write, a line that lacks
\* only that is cut like any other.
AppendUnbroken(w) ==
  /\ pc[w] = "append"
  /\ tears < MaxTears
  /\ tears' = tears + 1
  /\ file[0].rest = "none"
  /\ WriteLine(w, "open")
  /\ UNCHANGED acked

\* Part of the line is written.  The entries hold Cyrillic text as UTF-8.
AppendPart(w) ==
  /\ pc[w] = "append"
  /\ tears < MaxTears
  /\ tears' = tears + 1
  /\ \E r \in {"cut", "midchar"} :
       file' = [file EXCEPT ![0] = [lines |-> Closed,
                                    rest |-> IF file[0].rest = "midchar" THEN "midchar" ELSE r,
                                    mtime |-> Now]]
  /\ pc' = [pc EXCEPT ![w] = "idle"]
  /\ UNCHANGED <<entry, name, built, written, acked, overlap>>

\* The process dies, or the write fails before its first byte.
GiveUp(w) ==
  /\ pc[w] # "idle"
  /\ pc' = [pc EXCEPT ![w] = "idle"]
  /\ UNCHANGED <<file, entry, name, built, history>>

Write(w) == Build(w) \/ Look(w) \/ Replace(w) \/ AppendLine(w)
Fail(w) == AppendUnsynced(w) \/ AppendUnbroken(w) \/ AppendPart(w) \/ GiveUp(w)

Next == \E w \in Writer : Write(w) \/ Fail(w)

Spec == Init /\ [][Next]_vars

-----------------------------------------------------------------------------
(* verify_audit_chain                                                      *)

\* The month's files by modification time, one after the other.
AllLines ==
  LET existing == {file[n] : n \in {k \in 0 .. MaxEntries : Exists(k)}}
      sorted == SetToSortSeq(existing, LAMBDA f, g : f.mtime < g.mtime)
  IN  FlattenSeq([i \in DOMAIN sorted |-> sorted[i].lines])

\* _verify_single_file over all of them; where a line cannot be decoded the code
\* raises instead of refusing the line.
\* prevAfter[i]: the hash the next entry must name once i lines are verified.  A
\* line that is refused does not move it.
Accepted ==
  LET Fits(line, prev) == line.kind = "json" /\ line.prev = prev
      prevAfter[i \in 0 .. Len(AllLines)] ==
        IF i = 0 THEN 0
        ELSE IF Fits(AllLines[i], prevAfter[i - 1]) THEN AllLines[i].id
        ELSE prevAfter[i - 1]
  IN  {AllLines[i].id : i \in {k \in DOMAIN AllLines :
                                 Fits(AllLines[k], prevAfter[k - 1])}}

-----------------------------------------------------------------------------
(* Properties.                                                             *)

LinesOnDisk == UNION {Range(file[n].lines) : n \in 0 .. MaxEntries}
OnDisk == {line.id : line \in LinesOnDisk}

\* Rotation keeps every acknowledged entry: as long as no two writers were about
\* to rename at the same time (l.38-46 looks for a free name and renames later),
\* every entry whose write returned is in some file of the month.
NothingLost == ~ overlap => acked \subseteq OnDisk

\* A write that stops within its line spoils at most one later entry: the one glued
\* to its rest.  The number of entries that were written and cannot be parsed never
\* exceeds the number of such writes (l.100-107).
Spoiled == {line.id : line \in {l \in LinesOnDisk : l.kind # "json"}}
SpoiledBounded == Cardinality(Spoiled) <= tears

\* No entry is chained to one that was only built, by this writer or another, or to
\* a later one: the whole line of the entry that _prev_hash names was in the file
\* (l.85-90).  That its writer was told so is not claimed: a line whose fsync failed
\* or whose line break is missing is read like any other (l.57-61, l.103-107).
LinksToWritten ==
  \A line \in LinesOnDisk : line.prev # 0 => line.prev \in written /\ line.prev < line.id

=============================================================================
