-------------------------- MODULE AuditChain_proofs --------------------------
(* Proofs about AuditChain: rotation loses no entry, and entries are chained *)
(* to entries that reached the disk.                                       *)
EXTENDS AuditChain, FiniteSetTheorems, TLAPS

(***************************************************************************)
(* The argument.  An entry leaves the disk only when os.replace overwrites *)
(* a file, and a name in use is overwritten only if another writer took it *)
(* after this one found it free.  So while no two writers have been about  *)
(* to rename at once, the name a writer is about to use is still free.     *)
(***************************************************************************)
File == [lines : Seq(Line), rest : Rest, mtime : Nat]

Shape ==
  /\ file \in [0 .. MaxEntries -> File]
  /\ pc \in [Writer -> {"idle", "look", "replace", "append"}]
  /\ entry \in [Writer -> Entry \cup {[id |-> 0, prev |-> 0]}]
  /\ name \in [Writer -> 0 .. MaxEntries]
  /\ built \in 0 .. MaxEntries
  /\ written \subseteq Id /\ acked \subseteq written
  /\ tears \in Nat
  /\ overlap \in BOOLEAN
  /\ \A w \in Writer : pc[w] # "idle" => entry[w] \in Entry
  /\ \A w \in Writer : pc[w] = "replace" => name[w] \in Names

FreeNames ==
  ~ overlap =>
    /\ \A v, w \in Writer : pc[v] = "replace" /\ pc[w] = "replace" => v = w
    /\ \A w \in Writer : pc[w] = "replace" => ~ Exists(name[w])

\* No two entries have the same number, and none is written twice.
Fresh ==
  /\ \A x \in written : x <= built
  /\ \A w \in Writer : pc[w] # "idle" => entry[w].id <= built /\ entry[w].id \notin written
  /\ \A v, w \in Writer :
       pc[v] # "idle" /\ pc[w] # "idle" /\ entry[v].id = entry[w].id => v = w

\* A line that lacks its line break was never acknowledged: it may be garbled.
OpenUnacked ==
  \A n \in 0 .. MaxEntries :
    file[n].rest = "open" =>
      /\ file[n].lines # <<>>
      /\ file[n].lines[Len(file[n].lines)].id \in written \ acked

Inv == Shape /\ FreeNames /\ Fresh /\ OpenUnacked /\ NothingLost

-----------------------------------------------------------------------------
(* Lemmas.                                                                 *)

\* An entry is on disk iff a line of some file holds it.
LEMMA OnDiskMeaning ==
  ASSUME NEW x
  PROVE  x \in OnDisk <=>
           \E n \in 0 .. MaxEntries : \E i \in DOMAIN file[n].lines :
             file[n].lines[i].id = x
BY DEF OnDisk, LinesOnDisk, Range

\* The same of the next state.
LEMMA OnDiskMeaningNext ==
  ASSUME NEW x
  PROVE  x \in OnDisk' <=>
           \E n \in 0 .. MaxEntries : \E i \in DOMAIN file'[n].lines :
             file'[n].lines[i].id = x
BY DEF OnDisk, LinesOnDisk, Range

LEMMA NowIsNat == Shape => Now \in Nat
<1> SUFFICES ASSUME Shape PROVE Now \in Nat
  OBVIOUS
<1>1. IsFiniteSet(written)
  <2>1. IsFiniteSet(Id)
    BY AuditAssumption, FS_Interval, 1 \in Int, MaxEntries \in Int DEF Id
  <2> QED BY <2>1, FS_Subset DEF Shape
<1> QED BY <1>1, FS_CardinalityType DEF Shape, Now

\* What stays of the live file when something is written behind it: all of it but a
\* line without its line break.
LEMMA ClosedType ==
  ASSUME Shape
  PROVE  /\ Closed \in Seq(Line)
         /\ \A i \in DOMAIN Closed :
              i \in DOMAIN file[0].lines /\ Closed[i] = file[0].lines[i]
         /\ \A i \in DOMAIN file[0].lines :
              i \in DOMAIN Closed \/ (file[0].rest = "open" /\ i = Len(file[0].lines))
         /\ file[0].rest # "open" => Closed = file[0].lines
<1>1. file[0].lines \in Seq(Line)
  BY AuditAssumption DEF Shape, File
<1>2. CASE file[0].rest = "open"
  <2> DEFINE l == file[0].lines
  <2>1. Closed = SubSeq(l, 1, Len(l) - 1)
    BY <1>2 DEF Closed, Front
  <2>2. Len(l) \in Nat /\ DOMAIN l = 1 .. Len(l)
    BY <1>1
  <2>3. CASE l = <<>>
    <3>1. Closed = <<>>
      BY <2>1, <2>3
    <3> QED BY <1>2, <2>3, <3>1
  <2>4. CASE l # <<>>
    <3>1. Len(l) - 1 \in Nat
      BY <1>1, <2>4
    <3>2. Closed \in Seq(Line) /\ Len(Closed) = Len(l) - 1
          /\ \A i \in 1 .. Len(l) - 1 : Closed[i] = l[i]
      BY <1>1, <2>1, <3>1
    <3> QED BY <1>2, <2>2, <3>1, <3>2
  <2> QED BY <2>3, <2>4
<1>3. CASE file[0].rest # "open"
  BY <1>1, <1>3 DEF Closed
<1> QED BY <1>2, <1>3

\* What is built is an entry.
LEMMA LastHashType == Shape /\ ~ Undecodable => LastHash \in 0 .. MaxEntries
<1> SUFFICES ASSUME Shape, HasLineBefore, LastKind = "json"
             PROVE  LastHash \in 0 .. MaxEntries
  BY AuditAssumption DEF LastHash
<1>0. file[0] \in File
  BY AuditAssumption DEF Shape
<1>1. file[0].rest \in {"none", "open"}
  BY <1>0 DEF LastKind, File, Rest
<1>2. file[0].lines \in Seq(Line) /\ Len(file[0].lines) >= 2
  <2>1. file[0].rest \notin {"cut", "midchar"} /\ file[0].lines \in Seq(Line)
    BY <1>0, <1>1 DEF File
  <2>2. Len(file[0].lines) + 0 >= 2
    BY <2>1 DEF HasLineBefore
  <2> QED BY <2>1, <2>2
<1>3. Last(file[0].lines) \in Line
  BY <1>2 DEF Last
<1> QED BY <1>3, AuditAssumption DEF LastHash, Line, Id

\* The line an entry leaves is a line.
LEMMA LineOfType ==
  ASSUME Shape, NEW e \in Entry
  PROVE  LineOf(e) \in Line /\ LineOf(e).id = e.id /\ LineOf(e).prev = e.prev
<1>1. file[0].rest \in Rest
  BY AuditAssumption DEF Shape, File
<1> QED BY <1>1 DEF LineOf, Line, Entry, Rest

-----------------------------------------------------------------------------
(* The invariant.                                                          *)

\* What writing a line does to the directory.
LEMMA WriteEffect ==
  ASSUME Shape, NEW w \in Writer, NEW end \in Rest, pc[w] = "append", WriteLine(w, end)
  PROVE  /\ file' \in [0 .. MaxEntries -> File]
         /\ file'[0].rest = end
         /\ \A n \in 0 .. MaxEntries : n # 0 => file'[n] = file[n]
         /\ \A i \in DOMAIN Closed :
              i \in DOMAIN file'[0].lines /\ file'[0].lines[i] = Closed[i]
         /\ \A i \in DOMAIN file'[0].lines :
              \/ i \in DOMAIN Closed
              \/ i = Len(Closed) + 1 /\ file'[0].lines[i] = LineOf(entry[w])
         /\ Len(Closed) + 1 \in DOMAIN file'[0].lines
         /\ file'[0].lines[Len(Closed) + 1] = LineOf(entry[w])
         /\ Len(file'[0].lines) = Len(Closed) + 1
         /\ entry[w] \in Entry /\ LineOf(entry[w]).id = entry[w].id
         /\ LineOf(entry[w]).prev = entry[w].prev
         /\ pc' = [pc EXCEPT ![w] = "idle"]
         /\ written' = written \cup {entry[w].id}
         /\ UNCHANGED <<entry, name, built, overlap>>
<1> DEFINE line == LineOf(entry[w])
<1>1. entry[w] \in Entry /\ line \in Line /\ line.id = entry[w].id /\ line.prev = entry[w].prev
  BY LineOfType DEF Shape
<1>2. Closed \in Seq(Line) /\ Now \in Nat
  BY ClosedType, NowIsNat
<1> HIDE DEF line
<1>3. /\ Append(Closed, line) \in Seq(Line) /\ Len(Append(Closed, line)) = Len(Closed) + 1
      /\ \A i \in DOMAIN Closed : i \in DOMAIN Append(Closed, line)
                                /\ Append(Closed, line)[i] = Closed[i]
      /\ \A i \in DOMAIN Append(Closed, line) : i \in DOMAIN Closed \/ i = Len(Closed) + 1
      /\ Len(Closed) + 1 \in DOMAIN Append(Closed, line)
      /\ Append(Closed, line)[Len(Closed) + 1] = line
  BY <1>1, <1>2
<1>4. file' = [file EXCEPT ![0] = [lines |-> Append(Closed, line), rest |-> end, mtime |-> Now]]
  BY DEF WriteLine, line
<1>5. [lines |-> Append(Closed, line), rest |-> end, mtime |-> Now] \in File
  BY <1>2, <1>3 DEF File
<1>6. file' \in [0 .. MaxEntries -> File]
  BY <1>4, <1>5 DEF Shape
<1>7. /\ file'[0] = [lines |-> Append(Closed, line), rest |-> end, mtime |-> Now]
      /\ \A n \in 0 .. MaxEntries : n # 0 => file'[n] = file[n]
  BY <1>4, AuditAssumption DEF Shape
<1>8. file'[0].lines = Append(Closed, line) /\ file'[0].rest = end
  BY <1>7
<1> QED BY <1>1, <1>3, <1>6, <1>7, <1>8 DEF WriteLine, line

\* What is left of a write that stops within its line.
LEMMA PartEffect ==
  ASSUME Shape, NEW w \in Writer, AppendPart(w)
  PROVE  /\ file' \in [0 .. MaxEntries -> File]
         /\ file'[0].lines = Closed /\ file'[0].rest \in {"cut", "midchar"}
         /\ \A n \in 0 .. MaxEntries : n # 0 => file'[n] = file[n]
<1>1. PICK r \in {"cut", "midchar"} :
        file' = [file EXCEPT ![0] = [lines |-> Closed,
                                     rest |-> IF file[0].rest = "midchar" THEN "midchar" ELSE r,
                                     mtime |-> Now]]
  BY DEF AppendPart
<1> DEFINE q == IF file[0].rest = "midchar" THEN "midchar" ELSE r
<1>2. q \in {"cut", "midchar"}
  OBVIOUS
<1> HIDE DEF q
<1>3. file' = [file EXCEPT ![0] = [lines |-> Closed, rest |-> q, mtime |-> Now]]
  BY <1>1 DEF q
<1>4. [lines |-> Closed, rest |-> q, mtime |-> Now] \in File
  BY <1>2, ClosedType, NowIsNat DEF File, Rest
<1> QED BY <1>2, <1>3, <1>4, AuditAssumption DEF Shape

\* The writes, and what they have in common.
Writes(w) == AppendLine(w) \/ AppendUnsynced(w) \/ AppendUnbroken(w)

LEMMA WritesAreWriteLine ==
  ASSUME NEW w \in Writer, Writes(w)
  PROVE  /\ pc[w] = "append"
         /\ \E end \in {"none", "open"} : WriteLine(w, end)
         /\ acked' = acked \/ (acked' = acked \cup {entry[w].id} /\ WriteLine(w, "none"))
         /\ tears' = tears \/ tears' = tears + 1
BY DEF Writes, AppendLine, AppendUnsynced, AppendUnbroken

LEMMA InvInit == Init => Inv
<1> SUFFICES ASSUME Init PROVE Inv
  OBVIOUS
<1>1. Shape
  <2>1. Absent \in File
    BY DEF Absent, File, Rest
  <2>2. file \in [0 .. MaxEntries -> File]
    BY <2>1 DEF Init
  <2>3. /\ entry \in [Writer -> Entry \cup {[id |-> 0, prev |-> 0]}]
        /\ \A w \in Writer : pc[w] = "idle"
    BY DEF Init
  <2>4. /\ pc \in [Writer -> {"idle", "look", "replace", "append"}]
        /\ name \in [Writer -> 0 .. MaxEntries] /\ built \in 0 .. MaxEntries
    BY AuditAssumption DEF Init
  <2>5. /\ written \subseteq Id /\ acked \subseteq written
        /\ tears \in Nat /\ overlap \in BOOLEAN
    BY DEF Init
  <2> QED BY <2>2, <2>3, <2>4, <2>5 DEF Shape
<1>2. FreeNames
  BY DEF Init, FreeNames
<1>3. NothingLost
  BY DEF Init, NothingLost
<1>4. Fresh
  BY DEF Init, Fresh
<1>5. OpenUnacked
  BY DEF Init, OpenUnacked, Absent
<1> QED BY <1>1, <1>2, <1>3, <1>4, <1>5 DEF Inv

LEMMA ShapeNext ==
  ASSUME Shape, [Next]_vars
  PROVE  Shape'
<1> USE AuditAssumption
<1>1. ASSUME NEW w \in Writer, Build(w) PROVE Shape'
  <2>1. [id |-> built + 1, prev |-> LastHash] \in Entry
    BY <1>1, LastHashType DEF Build, Shape, Entry, Id
  <2> QED BY <1>1, <2>1 DEF Build, Shape, history
<1>2. ASSUME NEW w \in Writer, Look(w) PROVE Shape'
  <2>1. CASE Len(file[0].lines) > RotateAbove
    <3>1. PICK n \in Names : name' = [name EXCEPT ![w] = n]
      BY <1>2, <2>1 DEF Look
    <3>2. /\ pc[w] = "look" /\ pc' = [pc EXCEPT ![w] = "replace"]
          /\ overlap' \in BOOLEAN
          /\ UNCHANGED <<file, entry, built, written, acked, tears>>
      BY <1>2, <2>1 DEF Look, Shape
    <3>3. n \in 0 .. MaxEntries
      BY DEF Names
    <3> QED BY <3>1, <3>2, <3>3 DEF Shape
  <2>2. CASE ~ (Len(file[0].lines) > RotateAbove)
    BY <1>2, <2>2 DEF Look, Shape
  <2> QED BY <2>1, <2>2
<1>3. ASSUME NEW w \in Writer, Replace(w) PROVE Shape'
  <2>1. Absent \in File
    BY DEF Absent, File, Rest
  <2>2. file' \in [0 .. MaxEntries -> File]
    BY <1>3, <2>1 DEF Replace, Shape, Names
  <2> QED BY <1>3, <2>2 DEF Replace, Shape, history
<1>4. ASSUME NEW w \in Writer, Writes(w) PROVE Shape'
  <2>1. PICK end \in {"none", "open"} : WriteLine(w, end)
    BY <1>4, WritesAreWriteLine
  <2>2. end \in Rest /\ pc[w] = "append"
    BY <1>4, WritesAreWriteLine DEF Rest
  <2>3. /\ file' \in [0 .. MaxEntries -> File]
        /\ entry[w] \in Entry /\ written' = written \cup {entry[w].id}
        /\ pc' = [pc EXCEPT ![w] = "idle"]
        /\ UNCHANGED <<entry, name, built, overlap>>
    BY <2>1, <2>2, WriteEffect
  <2>4. entry[w].id \in Id
    BY <2>3 DEF Entry
  <2>5. written' \subseteq Id /\ acked' \subseteq written' /\ tears' \in Nat
    BY <1>4, <2>3, <2>4, WritesAreWriteLine DEF Shape
  <2> QED BY <2>3, <2>5 DEF Shape
<1>5. ASSUME NEW w \in Writer, AppendPart(w) PROVE Shape'
  <2>1. file' \in [0 .. MaxEntries -> File]
    BY <1>5, PartEffect
  <2> QED BY <1>5, <2>1 DEF AppendPart, Shape
<1>6. ASSUME NEW w \in Writer, GiveUp(w) PROVE Shape'
  BY <1>6 DEF GiveUp, Shape, history
<1>7. CASE UNCHANGED vars
  BY <1>7 DEF vars, history, Shape
<1> QED BY <1>1, <1>2, <1>3, <1>4, <1>5, <1>6, <1>7 DEF Next, Write, Fail, Writes

LEMMA FreeNamesNext ==
  ASSUME Shape, FreeNames, [Next]_vars
  PROVE  FreeNames'
<1> USE AuditAssumption
<1>1. ASSUME NEW w \in Writer, Look(w) PROVE FreeNames'
  <2>1. CASE Len(file[0].lines) > RotateAbove
    <3>1. PICK n \in Names : IsFreeName(n) /\ name' = [name EXCEPT ![w] = n]
      BY <1>1, <2>1 DEF Look
    <3>2. ~ overlap' => ~ overlap /\ \A v \in Writer \ {w} : pc[v] # "replace"
      BY <1>1, <2>1 DEF Look, Shape
    <3>3. /\ pc' = [pc EXCEPT ![w] = "replace"]
          /\ file' = file
      BY <1>1, <2>1 DEF Look
    <3>4. \A k : Exists(k)' = Exists(k)
      BY <3>3 DEF Exists
    <3>5. ~ Exists(n)'
      BY <3>1, <3>4 DEF IsFreeName
    <3>6. \A v \in Writer : ~ overlap' /\ pc'[v] = "replace" => v = w
      BY <3>2, <3>3 DEF Shape
    <3> QED BY <3>1, <3>5, <3>6 DEF FreeNames, Shape, Exists
  <2>2. CASE ~ (Len(file[0].lines) > RotateAbove)
    BY <1>1, <2>2 DEF Look, FreeNames, Shape, Exists
  <2> QED BY <2>1, <2>2
<1>2. ASSUME NEW w \in Writer, Replace(w) PROVE FreeNames'
  <2>1. /\ pc[w] = "replace" /\ pc' = [pc EXCEPT ![w] = "append"]
        /\ overlap' = overlap
    BY <1>2 DEF Replace, history
  <2>2. ~ overlap' => \A v \in Writer : pc'[v] # "replace"
    BY <2>1 DEF FreeNames, Shape
  <2> QED BY <2>2 DEF FreeNames
<1>3. ASSUME NEW w \in Writer, file[0].lines = file[0].lines,
             \A k \in Names : file'[k] = file[k],
             overlap' = overlap, name' = name,
             \A v \in Writer : pc'[v] = "replace" => pc[v] = "replace"
      PROVE  FreeNames'
  <2>1. \A k \in Names : Exists(k)' = Exists(k)
    BY <1>3 DEF Exists
  <2> QED BY <1>3, <2>1 DEF FreeNames, Shape, Exists
<1>4. ASSUME NEW w \in Writer, Build(w) \/ AppendPart(w) \/ GiveUp(w)
      PROVE  FreeNames'
  <2>1. \A k \in Names : file'[k] = file[k]
    <3>1. CASE AppendPart(w)
      BY <3>1, PartEffect DEF Names
    <3>2. CASE Build(w) \/ GiveUp(w)
      BY <3>2 DEF Build, GiveUp, history
    <3> QED BY <1>4, <3>1, <3>2
  <2>2. overlap' = overlap /\ name' = name
    BY <1>4 DEF Build, AppendPart, GiveUp, history
  <2>3. \A v \in Writer : pc'[v] = "replace" => pc[v] = "replace"
    BY <1>4 DEF Build, AppendPart, GiveUp, Shape
  <2> QED BY <1>3, <2>1, <2>2, <2>3
<1>6. ASSUME NEW w \in Writer, Writes(w) PROVE FreeNames'
  <2>1. PICK end \in Rest : pc[w] = "append" /\ WriteLine(w, end)
    BY <1>6, WritesAreWriteLine DEF Rest
  <2>2. \A k \in Names : file'[k] = file[k]
    BY <2>1, WriteEffect DEF Names
  <2>3. overlap' = overlap /\ name' = name
    BY <2>1, WriteEffect
  <2>4. \A v \in Writer : pc'[v] = "replace" => pc[v] = "replace"
    BY <2>1, WriteEffect DEF Shape
  <2> QED BY <1>3, <2>2, <2>3, <2>4
<1>5. CASE UNCHANGED vars
  BY <1>5 DEF vars, history, FreeNames, Exists
<1> QED BY <1>1, <1>2, <1>4, <1>5, <1>6 DEF Next, Write, Fail, Writes

LEMMA FreshNext ==
  ASSUME Shape, Fresh, [Next]_vars
  PROVE  Fresh'
<1> USE AuditAssumption
<1>1. ASSUME NEW w \in Writer, Build(w) PROVE Fresh'
  <2>1. /\ entry' = [entry EXCEPT ![w] = [id |-> built + 1, prev |-> LastHash]]
        /\ built' = built + 1 /\ pc' = [pc EXCEPT ![w] = "look"] /\ written' = written
    BY <1>1 DEF Build, history
  <2>2. entry'[w].id = built + 1 /\ \A v \in Writer : v # w => entry'[v] = entry[v] /\ pc'[v] = pc[v]
    BY <2>1 DEF Shape
  <2>3. built \in Nat /\ \A x \in written : x \in Nat
    BY DEF Shape, Id
  <2>4. \A v \in Writer : pc[v] # "idle" => entry[v].id \in Nat /\ entry[v].id <= built
    BY DEF Shape, Fresh, Entry, Id
  <2>5. \A x \in written' : x <= built'
    BY <2>1, <2>3 DEF Fresh
  <2>6. \A v \in Writer : pc'[v] # "idle" => entry'[v].id <= built' /\ entry'[v].id \notin written'
    <3> SUFFICES ASSUME NEW v \in Writer, pc'[v] # "idle"
                 PROVE  entry'[v].id <= built' /\ entry'[v].id \notin written'
      OBVIOUS
    <3>1. CASE v = w
      <4>1. built + 1 \notin written
        BY <2>3 DEF Fresh
      <4> QED BY <2>1, <2>2, <2>3, <3>1, <4>1
    <3>2. CASE v # w
      BY <2>1, <2>2, <2>3, <2>4, <3>2 DEF Fresh
    <3> QED BY <3>1, <3>2
  <2>7. \A u, v \in Writer :
          pc'[u] # "idle" /\ pc'[v] # "idle" /\ entry'[u].id = entry'[v].id => u = v
    BY <2>2, <2>3, <2>4 DEF Fresh
  <2> QED BY <2>5, <2>6, <2>7 DEF Fresh
<1>2. ASSUME NEW w \in Writer, Writes(w) PROVE Fresh'
  <2>1. PICK end \in Rest : pc[w] = "append" /\ WriteLine(w, end)
    BY <1>2, WritesAreWriteLine DEF Rest
  <2>2. /\ pc' = [pc EXCEPT ![w] = "idle"] /\ written' = written \cup {entry[w].id}
        /\ entry' = entry /\ built' = built
    BY <2>1, WriteEffect
  <2> QED BY <2>1, <2>2 DEF Fresh, Shape
<1>3. ASSUME NEW w \in Writer, Look(w) \/ Replace(w) \/ AppendPart(w) \/ GiveUp(w)
      PROVE  Fresh'
  <2>1. written' = written /\ built' = built /\ entry' = entry
    BY <1>3 DEF Look, Replace, AppendPart, GiveUp, history
  <2>2. \A v \in Writer : pc'[v] # "idle" => pc[v] # "idle"
    BY <1>3 DEF Look, Replace, AppendPart, GiveUp, Shape
  <2> QED BY <2>1, <2>2 DEF Fresh
<1>4. CASE UNCHANGED vars
  BY <1>4 DEF vars, history, Fresh
<1> QED BY <1>1, <1>2, <1>3, <1>4 DEF Next, Write, Fail, Writes

LEMMA OpenUnackedNext ==
  ASSUME Shape, Fresh, OpenUnacked, [Next]_vars
  PROVE  OpenUnacked'
<1> USE AuditAssumption
\* Another file ends as it ended, and nothing it ends in is acknowledged later.
<1>1. ASSUME UNCHANGED <<written, acked>>,
             \A n \in 0 .. MaxEntries :
               file'[n].rest # "open" \/ \E m \in 0 .. MaxEntries : file'[n] = file[m]
      PROVE  OpenUnacked'
  BY <1>1 DEF OpenUnacked
<1>2. ASSUME NEW w \in Writer, Writes(w) PROVE OpenUnacked'
  <2>1. PICK end \in {"none", "open"} : WriteLine(w, end)
    BY <1>2, WritesAreWriteLine
  <2>2. end \in Rest /\ pc[w] = "append"
    BY <1>2, WritesAreWriteLine DEF Rest
  <2>3. /\ file'[0].rest = end /\ written' = written \cup {entry[w].id}
        /\ \A n \in 0 .. MaxEntries : n # 0 => file'[n] = file[n]
        /\ Len(file'[0].lines) = Len(Closed) + 1
        /\ file'[0].lines[Len(Closed) + 1].id = entry[w].id
        /\ Len(Closed) + 1 \in DOMAIN file'[0].lines
    BY <2>1, <2>2, WriteEffect
  <2>4. entry[w].id \notin written
    BY <2>2 DEF Fresh
  <2>5. acked' \subseteq acked \cup {entry[w].id} /\ acked \subseteq written
    BY <1>2, WritesAreWriteLine DEF Shape
  <2>6. ASSUME NEW n \in 0 .. MaxEntries, file'[n].rest = "open"
        PROVE  /\ file'[n].lines # <<>>
               /\ file'[n].lines[Len(file'[n].lines)].id \in written' \ acked'
    <3>1. CASE n # 0
      BY <2>3, <2>4, <2>5, <2>6, <3>1 DEF OpenUnacked
    <3>2. CASE n = 0
      <4>1. end = "open"
        BY <2>3, <2>6, <3>2
      <4>2. AppendUnbroken(w)
        <5>1. file'[0].rest # "none"
          BY <2>3, <4>1
        <5>2. ASSUME WriteLine(w, "none") PROVE FALSE
          <6>1. "none" \in Rest
            BY DEF Rest
          <6> QED BY <2>2, <5>1, <5>2, <6>1, WriteEffect
        <5> QED BY <1>2, <5>2 DEF Writes, AppendLine, AppendUnsynced
      <4>3. acked' = acked
        BY <4>2 DEF AppendUnbroken
      <4> QED BY <2>3, <2>4, <2>5, <3>2, <4>3
    <3> QED BY <3>1, <3>2
  <2> QED BY <2>6 DEF OpenUnacked
<1>3. ASSUME NEW w \in Writer, AppendPart(w) PROVE OpenUnacked'
  <2>1. UNCHANGED <<written, acked>>
    BY <1>3 DEF AppendPart
  <2>2. file'[0].rest # "open" /\ \A n \in 0 .. MaxEntries : n # 0 => file'[n] = file[n]
    BY <1>3, PartEffect
  <2> QED BY <1>1, <2>1, <2>2
<1>4. ASSUME NEW w \in Writer, Replace(w) PROVE OpenUnacked'
  <2>1. UNCHANGED <<written, acked>>
    BY <1>4 DEF Replace, history
  <2>2. \A n \in 0 .. MaxEntries : file'[n] = Absent \/ file'[n] = file[0] \/ file'[n] = file[n]
    <3>1. CASE Exists(0)
      BY <1>4, <3>1 DEF Replace, Shape
    <3>2. CASE ~ Exists(0)
      BY <1>4, <3>2 DEF Replace
    <3> QED BY <3>1, <3>2
  <2>3. Absent.rest # "open"
    BY DEF Absent
  <2> QED BY <1>1, <2>1, <2>2, <2>3
<1>5. ASSUME NEW w \in Writer, Build(w) \/ Look(w) \/ GiveUp(w) PROVE OpenUnacked'
  BY <1>5, <1>1 DEF Build, Look, GiveUp, history
<1>6. CASE UNCHANGED vars
  BY <1>6, <1>1 DEF vars, history
<1> QED BY <1>2, <1>3, <1>4, <1>5, <1>6 DEF Next, Write, Fail, Writes

\* Acknowledged entries stay on disk when something is written behind them.
LEMMA ClosedKeepsAcked ==
  ASSUME Shape, OpenUnacked,
         \A i \in DOMAIN Closed : i \in DOMAIN file'[0].lines /\ file'[0].lines[i] = Closed[i],
         \A n \in 0 .. MaxEntries : n # 0 => file'[n] = file[n],
         NEW x \in acked, x \in OnDisk
  PROVE  x \in OnDisk'
<1>1. PICK n \in 0 .. MaxEntries : \E i \in DOMAIN file[n].lines : file[n].lines[i].id = x
  BY OnDiskMeaning
<1>2. PICK i \in DOMAIN file[n].lines : file[n].lines[i].id = x
  BY <1>1
<1>3. CASE n # 0
  BY <1>2, <1>3, OnDiskMeaningNext
<1>4. CASE n = 0
  <2>1. i \in DOMAIN Closed
    BY <1>2, <1>4, ClosedType DEF OpenUnacked
  <2>2. file'[0].lines[i].id = x /\ i \in DOMAIN file'[0].lines
    BY <1>2, <1>4, <2>1, ClosedType
  <2> QED BY <2>2, <1>4, OnDiskMeaningNext
<1> QED BY <1>3, <1>4

LEMMA NothingLostNext ==
  ASSUME Shape, FreeNames, OpenUnacked, NothingLost, [Next]_vars
  PROVE  NothingLost'
<1> USE AuditAssumption
\* Lines that stay where they are keep their entries on disk.
<1>1. ASSUME \A n \in 0 .. MaxEntries : \A i \in DOMAIN file[n].lines :
               \E m \in 0 .. MaxEntries :
                 i \in DOMAIN file'[m].lines /\ file'[m].lines[i] = file[n].lines[i]
      PROVE  OnDisk \subseteq OnDisk'
  <2> SUFFICES ASSUME NEW x \in OnDisk PROVE x \in OnDisk'
    OBVIOUS
  <2>1. PICK n \in 0 .. MaxEntries : \E i \in DOMAIN file[n].lines :
          file[n].lines[i].id = x
    BY OnDiskMeaning
  <2> QED BY <1>1, <2>1, OnDiskMeaningNext
<1>2. ASSUME NEW w \in Writer, Replace(w) PROVE NothingLost'
  <2>1. acked' = acked /\ overlap' = overlap
    BY <1>2 DEF Replace, history
  <2>2. CASE ~ overlap /\ Exists(0)
    <3>1. name[w] \in Names /\ ~ Exists(name[w])
      BY <1>2, <2>2 DEF Replace, FreeNames, Shape
    <3>2. file[name[w]].lines = <<>>
      BY <3>1 DEF Exists
    <3>3. file' = [file EXCEPT ![name[w]] = file[0], ![0] = Absent]
      BY <1>2, <2>2 DEF Replace
    <3>4. file'[name[w]] = file[0]
          /\ \A n \in Names : n # name[w] => file'[n] = file[n]
      BY <3>1, <3>3 DEF Shape, Names
    <3>5. ASSUME NEW n \in 0 .. MaxEntries, NEW i \in DOMAIN file[n].lines
          PROVE  \E m \in 0 .. MaxEntries :
                   i \in DOMAIN file'[m].lines /\ file'[m].lines[i] = file[n].lines[i]
      <4>1. CASE n = 0
        BY <3>1, <3>4, <4>1 DEF Names
      <4>2. CASE n # 0
        BY <3>2, <3>4, <4>2 DEF Names
      <4> QED BY <4>1, <4>2
    <3> QED BY <2>1, <2>2, <3>5, <1>1 DEF NothingLost
  <2>3. CASE overlap
    BY <2>1, <2>3 DEF NothingLost
  <2>4. CASE ~ Exists(0)
    BY <1>2, <2>1, <2>4 DEF Replace, NothingLost, OnDisk, LinesOnDisk
  <2> QED BY <2>2, <2>3, <2>4
<1>3. ASSUME NEW w \in Writer, Writes(w) PROVE NothingLost'
  <2>1. PICK end \in Rest : pc[w] = "append" /\ WriteLine(w, end)
    BY <1>3, WritesAreWriteLine DEF Rest
  <2>2. \A x \in acked : x \in OnDisk => x \in OnDisk'
    BY <2>1, WriteEffect, ClosedKeepsAcked
  <2>3. entry[w].id \in OnDisk'
    BY <2>1, WriteEffect, OnDiskMeaningNext
  <2>4. acked' \subseteq acked \cup {entry[w].id} /\ overlap' = overlap
    BY <1>3, <2>1, WriteEffect, WritesAreWriteLine
  <2> QED BY <2>2, <2>3, <2>4 DEF NothingLost
<1>4. ASSUME NEW w \in Writer, AppendPart(w) PROVE NothingLost'
  <2>1. \A x \in acked : x \in OnDisk => x \in OnDisk'
    BY <1>4, PartEffect, ClosedKeepsAcked
  <2> QED BY <1>4, <2>1 DEF AppendPart, NothingLost
<1>5. ASSUME file' = file, acked' = acked, overlap \/ overlap' = overlap,
             overlap => overlap'
      PROVE  NothingLost'
  BY <1>5 DEF NothingLost, OnDisk, LinesOnDisk
<1>6. ASSUME NEW w \in Writer, Build(w) \/ GiveUp(w) PROVE NothingLost'
  BY <1>6, <1>5 DEF Build, GiveUp, history
<1>7. ASSUME NEW w \in Writer, Look(w) PROVE NothingLost'
  BY <1>7 DEF Look, NothingLost, OnDisk, LinesOnDisk
<1>8. CASE UNCHANGED vars
  BY <1>8, <1>5 DEF vars, history
<1> QED BY <1>2, <1>3, <1>4, <1>6, <1>7, <1>8 DEF Next, Write, Fail, Writes

-----------------------------------------------------------------------------
(* Theorems.                                                               *)

\* Without two writers about to rename at the same time, rotation loses no
\* acknowledged entry, for any number of writers and any file size
\* (_rotate_if_needed, l.36-48).
THEOREM RotationKeepsEntries == Spec => []NothingLost
<1>1. Init => Inv
  BY InvInit
<1>2. Inv /\ [Next]_vars => Inv'
  BY ShapeNext, FreeNamesNext, FreshNext, OpenUnackedNext, NothingLostNext DEF Inv
<1>3. Inv => NothingLost
  BY DEF Inv
<1> QED BY <1>1, <1>2, <1>3, PTL DEF Spec

-----------------------------------------------------------------------------
(***************************************************************************)
(* The chain.  A writer takes _prev_hash from a line that is in the live   *)
(* file, and every line in a file is one whose last byte was written;      *)
(* neither is undone by what other writers do before the entry is written. *)
(***************************************************************************)
Linked(e) == e.prev # 0 => e.prev \in written /\ e.prev < e.id

LinesLinked ==
  \A n \in 0 .. MaxEntries : \A i \in DOMAIN file[n].lines :
    Linked(file[n].lines[i]) /\ file[n].lines[i].id \in written

EntriesLinked ==
  \A w \in Writer : pc[w] # "idle" => Linked(entry[w]) /\ entry[w].id <= built

WrittenWasBuilt == \A x \in written : x <= built

LinkInv == Shape /\ LinesLinked /\ EntriesLinked /\ WrittenWasBuilt

LEMMA LinkInit == Init => LinkInv
<1> SUFFICES ASSUME Init PROVE LinkInv
  OBVIOUS
<1>1. Shape
  BY InvInit DEF Inv
<1>2. LinesLinked
  BY DEF Init, LinesLinked, Absent
<1>3. EntriesLinked /\ WrittenWasBuilt
  BY DEF Init, EntriesLinked, WrittenWasBuilt
<1> QED BY <1>1, <1>2, <1>3 DEF LinkInv

LEMMA LastHashLinked ==
  ASSUME Shape, LinesLinked, WrittenWasBuilt, ~ Undecodable
  PROVE  LastHash # 0 => LastHash \in written /\ LastHash <= built
<1> USE AuditAssumption
<1> SUFFICES ASSUME HasLineBefore, LastKind = "json"
             PROVE  LastHash \in written
  BY DEF LastHash, WrittenWasBuilt
<1>0. file[0] \in File
  BY DEF Shape
<1>1. file[0].rest \in {"none", "open"}
  BY <1>0 DEF LastKind, File, Rest
<1>2. file[0].lines \in Seq(Line) /\ Len(file[0].lines) >= 2
  <2>1. file[0].rest \notin {"cut", "midchar"} /\ file[0].lines \in Seq(Line)
    BY <1>0, <1>1 DEF File
  <2>2. Len(file[0].lines) + 0 >= 2
    BY <2>1 DEF HasLineBefore
  <2> QED BY <2>1, <2>2
<1>3. Len(file[0].lines) \in DOMAIN file[0].lines
  BY <1>2
<1>4. file[0].lines[Len(file[0].lines)].id \in written
  BY <1>3 DEF LinesLinked
<1> QED BY <1>4 DEF LastHash, Last

LEMMA LinkNext ==
  ASSUME LinkInv, [Next]_vars
  PROVE  LinkInv'
<1> USE AuditAssumption
<1>0. Shape /\ LinesLinked /\ EntriesLinked /\ WrittenWasBuilt
  BY DEF LinkInv
<1>1. Shape'
  BY <1>0, ShapeNext
<1>3. ASSUME NEW w \in Writer, Build(w)
      PROVE  LinesLinked' /\ EntriesLinked' /\ WrittenWasBuilt'
  <2>1. /\ file' = file /\ written' = written /\ built' = built + 1
        /\ built \in Nat
    BY <1>0, <1>3 DEF Build, history, Shape
  <2>2. LinesLinked'
    BY <1>0, <2>1 DEF LinesLinked, Linked
  <2>3. WrittenWasBuilt'
    BY <1>0, <2>1 DEF WrittenWasBuilt, Shape, Id
  <2>4. LastHash # 0 => LastHash \in written /\ LastHash <= built
    BY <1>0, <1>3, LastHashLinked DEF Build
  <2>5. entry' = [entry EXCEPT ![w] = [id |-> built + 1, prev |-> LastHash]]
        /\ pc' = [pc EXCEPT ![w] = "look"]
    BY <1>3 DEF Build
  <2>6. LastHash \in 0 .. MaxEntries
    BY <1>0, <1>3, LastHashType DEF Build
  <2>7. entry'[w].id = built + 1 /\ entry'[w].prev = LastHash
    BY <1>0, <2>5 DEF Shape
  <2>8. ASSUME NEW v \in Writer, pc'[v] # "idle"
        PROVE  Linked(entry[v])' /\ entry'[v].id <= built'
    <3>1. CASE v = w
      BY <2>1, <2>4, <2>6, <2>7, <3>1 DEF Linked
    <3>2. CASE v # w
      <4>1. entry'[v] = entry[v] /\ pc[v] # "idle"
        BY <1>0, <2>5, <2>8, <3>2 DEF Shape
      <4>2. entry[v].id \in Nat
        BY <1>0, <4>1 DEF Shape, Entry, Id
      <4> QED BY <1>0, <2>1, <4>1, <4>2 DEF EntriesLinked, Linked
    <3> QED BY <3>1, <3>2
  <2> QED BY <2>2, <2>3, <2>8 DEF EntriesLinked
<1>4. ASSUME NEW w \in Writer, Writes(w)
      PROVE  LinesLinked' /\ EntriesLinked' /\ WrittenWasBuilt'
  <2>1. PICK end \in Rest : pc[w] = "append" /\ WriteLine(w, end)
    BY <1>4, WritesAreWriteLine DEF Rest
  <2>2. /\ written' = written \cup {entry[w].id} /\ built' = built /\ entry' = entry
        /\ pc' = [pc EXCEPT ![w] = "idle"] /\ pc[w] # "idle"
    BY <1>0, <2>1, WriteEffect
  <2>3. Linked(entry[w]) /\ entry[w].id <= built
    BY <1>0, <2>2 DEF EntriesLinked
  <2>4. ASSUME NEW n \in 0 .. MaxEntries, NEW i \in DOMAIN file'[n].lines
        PROVE  \/ i \in DOMAIN file[n].lines /\ file'[n].lines[i] = file[n].lines[i]
               \/ file'[n].lines[i] = LineOf(entry[w])
    <3>1. CASE n # 0
      BY <1>0, <2>1, <2>4, <3>1, WriteEffect
    <3>2. CASE n = 0
      BY <1>0, <2>1, <2>4, <3>2, WriteEffect, ClosedType
    <3> QED BY <3>1, <3>2
  <2>5. LineOf(entry[w]).id = entry[w].id /\ LineOf(entry[w]).prev = entry[w].prev
    BY <1>0, <2>1, WriteEffect
  <2>6. ASSUME NEW n \in 0 .. MaxEntries, NEW i \in DOMAIN file'[n].lines
        PROVE  Linked(file[n].lines[i])' /\ file'[n].lines[i].id \in written'
    <3>1. CASE i \in DOMAIN file[n].lines /\ file'[n].lines[i] = file[n].lines[i]
      BY <1>0, <2>2, <3>1 DEF LinesLinked, Linked
    <3>2. CASE file'[n].lines[i] = LineOf(entry[w])
      BY <2>2, <2>3, <2>5, <3>2 DEF Linked
    <3> QED BY <2>4, <2>6, <3>1, <3>2
  <2>7. LinesLinked'
    BY <2>6 DEF LinesLinked
  <2>8. EntriesLinked'
    BY <1>0, <2>2 DEF EntriesLinked, Linked, Shape
  <2>9. WrittenWasBuilt'
    BY <1>0, <2>2, <2>3 DEF WrittenWasBuilt
  <2> QED BY <2>7, <2>8, <2>9
<1>5. ASSUME written' = written, built' = built, entry' = entry,
             \A v \in Writer : pc'[v] # "idle" => pc[v] # "idle",
             \A n \in 0 .. MaxEntries :
               \/ file'[n].lines = <<>>
               \/ \E m \in 0 .. MaxEntries : file'[n].lines = file[m].lines
      PROVE  LinesLinked' /\ EntriesLinked' /\ WrittenWasBuilt'
  <2>1. LinesLinked'
    BY <1>0, <1>5 DEF LinesLinked, Linked
  <2>2. EntriesLinked' /\ WrittenWasBuilt'
    BY <1>0, <1>5 DEF EntriesLinked, WrittenWasBuilt, Linked
  <2> QED BY <2>1, <2>2
<1>6. ASSUME NEW w \in Writer, Look(w) \/ GiveUp(w)
      PROVE  LinesLinked' /\ EntriesLinked' /\ WrittenWasBuilt'
  <2>1. written' = written /\ built' = built /\ entry' = entry /\ file' = file
    BY <1>6 DEF Look, GiveUp, history
  <2>2. \A v \in Writer : pc'[v] # "idle" => pc[v] # "idle"
    BY <1>0, <1>6 DEF Look, GiveUp, Shape
  <2> QED BY <1>5, <2>1, <2>2
<1>7. ASSUME NEW w \in Writer, Replace(w)
      PROVE  LinesLinked' /\ EntriesLinked' /\ WrittenWasBuilt'
  <2>1. written' = written /\ built' = built /\ entry' = entry
    BY <1>7 DEF Replace, history
  <2>2. \A v \in Writer : pc'[v] # "idle" => pc[v] # "idle"
    BY <1>0, <1>7 DEF Replace, Shape
  <2>3. \A n \in 0 .. MaxEntries :
          \/ file'[n].lines = <<>>
          \/ \E m \in 0 .. MaxEntries : file'[n].lines = file[m].lines
    <3>1. CASE Exists(0)
      <4>1. file' = [file EXCEPT ![name[w]] = file[0], ![0] = Absent]
        BY <1>7, <3>1 DEF Replace
      <4>2. \A n \in 0 .. MaxEntries :
              file'[n] = Absent \/ file'[n] = file[0] \/ file'[n] = file[n]
        BY <1>0, <4>1 DEF Shape
      <4> QED BY <4>2 DEF Absent
    <3>2. CASE ~ Exists(0)
      BY <1>7, <3>2 DEF Replace
    <3> QED BY <3>1, <3>2
  <2> QED BY <1>5, <2>1, <2>2, <2>3
<1>8. ASSUME NEW w \in Writer, AppendPart(w)
      PROVE  LinesLinked' /\ EntriesLinked' /\ WrittenWasBuilt'
  <2>1. written' = written /\ built' = built /\ entry' = entry
    BY <1>8 DEF AppendPart
  <2>2. \A v \in Writer : pc'[v] # "idle" => pc[v] # "idle"
    BY <1>0, <1>8 DEF AppendPart, Shape
  <2>3. LinesLinked'
    <3>1. ASSUME NEW n \in 0 .. MaxEntries, NEW i \in DOMAIN file'[n].lines
          PROVE  i \in DOMAIN file[n].lines /\ file'[n].lines[i] = file[n].lines[i]
      <4>1. CASE n # 0
        BY <1>0, <1>8, <3>1, <4>1, PartEffect
      <4>2. CASE n = 0
        BY <1>0, <1>8, <3>1, <4>2, PartEffect, ClosedType
      <4> QED BY <4>1, <4>2
    <3> QED BY <1>0, <2>1, <3>1 DEF LinesLinked, Linked
  <2>4. EntriesLinked' /\ WrittenWasBuilt'
    BY <1>0, <2>1, <2>2 DEF EntriesLinked, WrittenWasBuilt, Linked
  <2> QED BY <2>3, <2>4
<1>9. ASSUME UNCHANGED vars
      PROVE  LinesLinked' /\ EntriesLinked' /\ WrittenWasBuilt'
  BY <1>5, <1>9 DEF vars, history
<1>10. LinesLinked' /\ EntriesLinked' /\ WrittenWasBuilt'
  BY <1>3, <1>4, <1>6, <1>7, <1>8, <1>9 DEF Next, Write, Fail, Writes
<1> QED BY <1>1, <1>10 DEF LinkInv

\* Whoever else writes, rotates, fails or dies, no entry on disk is chained to an
\* entry whose line was not written whole, or to a later one: a failed fsync or a
\* missing line break included (_build_audit_entry, l.85-90).
THEOREM ChainedToWritten == Spec => []LinksToWritten
<1>1. Init => LinkInv
  BY LinkInit
<1>2. LinkInv /\ [Next]_vars => LinkInv'
  BY LinkNext
<1>3. LinkInv => LinksToWritten
  BY DEF LinkInv, LinesLinked, Linked, LinksToWritten, LinesOnDisk, Range
<1> QED BY <1>1, <1>2, <1>3, PTL DEF Spec

-----------------------------------------------------------------------------
(***************************************************************************)
(* Failed writes.  A failed write leaves a rest at the end of one file; a  *)
(* rest moves with its file and spoils the next line that is appended to   *)
(* it, and is gone then.  So the spoiled entries and the files that end in *)
(* a rest are together at most as many as the failed writes.               *)
(***************************************************************************)
Ends == {n \in 0 .. MaxEntries : file[n].rest # "none"}
SpoilInv == Cardinality(Spoiled) + Cardinality(Ends) <= tears

\* An entry is spoiled iff some line with its number cannot be parsed.
LEMMA SpoiledMeaning ==
  ASSUME NEW x
  PROVE  x \in Spoiled <=>
           \E n \in 0 .. MaxEntries : \E i \in DOMAIN file[n].lines :
             file[n].lines[i].id = x /\ file[n].lines[i].kind # "json"
BY DEF Spoiled, LinesOnDisk, Range

\* The same of the next state.
LEMMA SpoiledMeaningNext ==
  ASSUME NEW x
  PROVE  x \in Spoiled' <=>
           \E n \in 0 .. MaxEntries : \E i \in DOMAIN file'[n].lines :
             file'[n].lines[i].id = x /\ file'[n].lines[i].kind # "json"
BY DEF Spoiled, LinesOnDisk, Range

\* Both sets of the sum are finite.
LEMMA SpoilFinite ==
  ASSUME Shape
  PROVE  /\ IsFiniteSet(Spoiled) /\ Cardinality(Spoiled) \in Nat
         /\ IsFiniteSet(Ends) /\ Cardinality(Ends) \in Nat
<1>1. IsFiniteSet(Id) /\ IsFiniteSet(0 .. MaxEntries)
  BY AuditAssumption, FS_Interval, 0 \in Int, 1 \in Int, MaxEntries \in Int DEF Id
<1>2. Spoiled \subseteq Id
  <2> SUFFICES ASSUME NEW x \in Spoiled PROVE x \in Id
    OBVIOUS
  <2>1. PICK n \in 0 .. MaxEntries : \E i \in DOMAIN file[n].lines : file[n].lines[i].id = x
    BY SpoiledMeaning
  <2>2. PICK i \in DOMAIN file[n].lines : file[n].lines[i].id = x
    BY <2>1
  <2>3. file[n].lines \in Seq(Line)
    BY DEF Shape, File
  <2>4. file[n].lines[i] \in Line
    BY <2>3
  <2> QED BY <2>2, <2>4 DEF Line
<1>3. Ends \subseteq 0 .. MaxEntries
  BY DEF Ends
<1>4. IsFiniteSet(Spoiled) /\ IsFiniteSet(Ends)
  BY <1>1, <1>2, <1>3, FS_Subset
<1> QED BY <1>4, FS_CardinalityType

\* What keeps the sum: one more spoiled entry needs one rest less, one more rest
\* needs a failed write.
LEMMA SumKept ==
  ASSUME NEW S, NEW T, NEW E, NEW F, NEW x, IsFiniteSet(S), IsFiniteSet(E),
         \/ T \subseteq S /\ F \subseteq E
         \/ T \subseteq S \cup {x} /\ 0 \in E /\ F \subseteq E \ {0}
  PROVE  Cardinality(T) + Cardinality(F) <= Cardinality(S) + Cardinality(E)
<1>1. CASE T \subseteq S /\ F \subseteq E
  <2>1. IsFiniteSet(T) /\ Cardinality(T) <= Cardinality(S)
    BY <1>1, FS_Subset
  <2>2. IsFiniteSet(F) /\ Cardinality(F) <= Cardinality(E)
    BY <1>1, FS_Subset
  <2>3. /\ Cardinality(S) \in Nat /\ Cardinality(E) \in Nat
        /\ Cardinality(T) \in Nat /\ Cardinality(F) \in Nat
    BY <2>1, <2>2, FS_CardinalityType
  <2> QED BY <2>1, <2>2, <2>3
<1>2. CASE T \subseteq S \cup {x} /\ 0 \in E /\ F \subseteq E \ {0}
  <2>1. IsFiniteSet(S \cup {x})
        /\ Cardinality(S \cup {x}) \in {Cardinality(S), Cardinality(S) + 1}
    BY FS_AddElement, Zenon
  <2>2. IsFiniteSet(E \ {0}) /\ Cardinality(E \ {0}) = Cardinality(E) - 1
    BY <1>2, FS_RemoveElement, Zenon
  <2>3. IsFiniteSet(T) /\ Cardinality(T) <= Cardinality(S \cup {x})
    BY <1>2, <2>1, FS_Subset
  <2>4. IsFiniteSet(F) /\ Cardinality(F) <= Cardinality(E \ {0})
    BY <1>2, <2>2, FS_Subset
  <2>5. /\ Cardinality(S) \in Nat /\ Cardinality(E) \in Nat
        /\ Cardinality(T) \in Nat /\ Cardinality(F) \in Nat
    BY <2>3, <2>4, FS_CardinalityType
  <2> QED BY <2>1, <2>2, <2>3, <2>4, <2>5
<1> QED BY <1>1, <1>2

\* os.replace moves the rest of the live file with it.
LEMMA ReplaceKeepsSpoil ==
  ASSUME NEW w \in Writer, Shape, SpoilInv, Replace(w)
  PROVE  SpoilInv'
<1> DEFINE k == name[w]
<1>1. /\ k \in 1 .. MaxEntries /\ UNCHANGED tears
      /\ file \in [0 .. MaxEntries -> File]
  BY DEF Replace, Shape, Names, history
<1>2. CASE ~ Exists(0)
  <2>1. UNCHANGED file
    BY <1>2 DEF Replace
  <2> QED BY <1>1, <2>1 DEF SpoilInv, Spoiled, LinesOnDisk, Ends
<1>3. CASE Exists(0)
  <2>1. file' = [file EXCEPT ![k] = file[0], ![0] = Absent]
    BY <1>3 DEF Replace
  <2>2. /\ file'[0] = Absent /\ file'[k] = file[0]
        /\ \A n \in 0 .. MaxEntries : n # 0 /\ n # k => file'[n] = file[n]
    BY <1>1, <2>1, AuditAssumption
  <2>3. Spoiled' \subseteq Spoiled
    <3> SUFFICES ASSUME NEW x \in Spoiled' PROVE x \in Spoiled
      OBVIOUS
    <3>1. PICK n \in 0 .. MaxEntries : \E i \in DOMAIN file'[n].lines :
            file'[n].lines[i].id = x /\ file'[n].lines[i].kind # "json"
      BY SpoiledMeaningNext
    <3>2. n # 0
      BY <2>2, <3>1 DEF Absent
    <3>3. n = k \/ file'[n] = file[n]
      BY <2>2, <3>2
    <3> QED BY <2>2, <3>1, <3>3, AuditAssumption, SpoiledMeaning
  <2>4. /\ IsFiniteSet(Spoiled) /\ Cardinality(Spoiled) \in Nat
        /\ IsFiniteSet(Ends) /\ Cardinality(Ends) \in Nat
    BY SpoilFinite
  <2>5. IsFiniteSet(Spoiled') /\ Cardinality(Spoiled') <= Cardinality(Spoiled)
    BY <2>3, <2>4, FS_Subset
  <2>6. IsFiniteSet(Ends') /\ Cardinality(Ends') <= Cardinality(Ends)
    <3>1. CASE 0 \in Ends
      <4>1. Ends' \subseteq (Ends \ {0}) \cup {k}
        BY <2>2 DEF Ends, Absent
      <4>2. IsFiniteSet(Ends \ {0}) /\ Cardinality(Ends \ {0}) = Cardinality(Ends) - 1
        BY <2>4, <3>1, FS_RemoveElement, Zenon
      <4>3. /\ IsFiniteSet((Ends \ {0}) \cup {k})
            /\ Cardinality((Ends \ {0}) \cup {k})
                 \in {Cardinality(Ends \ {0}), Cardinality(Ends \ {0}) + 1}
        BY <4>2, FS_AddElement, Zenon
      <4>4. IsFiniteSet(Ends') /\ Cardinality(Ends') <= Cardinality((Ends \ {0}) \cup {k})
        BY <4>1, <4>3, FS_Subset
      <4>5. Cardinality(Ends') \in Nat
        BY <4>4, FS_CardinalityType
      <4> QED BY <2>4, <4>2, <4>3, <4>4, <4>5
    <3>2. CASE 0 \notin Ends
      <4>1. Ends' \subseteq Ends
        BY <2>2, <3>2, AuditAssumption DEF Ends, Absent
      <4> QED BY <2>4, <4>1, FS_Subset
    <3> QED BY <3>1, <3>2
  <2>7. Cardinality(Spoiled') \in Nat /\ Cardinality(Ends') \in Nat
    BY <2>5, <2>6, FS_CardinalityType
  <2>8. tears \in Nat
    BY DEF Shape
  <2> QED BY <1>1, <2>4, <2>5, <2>6, <2>7, <2>8 DEF SpoilInv
<1> QED BY <1>2, <1>3

\* A line that is written is spoiled iff it is glued to a rest.
LEMMA WriteSpoils ==
  ASSUME NEW w \in Writer, Shape, NEW end \in Rest, pc[w] = "append", WriteLine(w, end)
  PROVE  Spoiled' \subseteq IF 0 \in Ends THEN Spoiled \cup {entry[w].id} ELSE Spoiled
<1>1. LineOf(entry[w]).kind = "json" <=> 0 \notin Ends
  BY AuditAssumption DEF LineOf, Ends, File, Rest, Shape
<1>2. LineOf(entry[w]).id = entry[w].id
  BY WriteEffect
<1> SUFFICES ASSUME NEW x \in Spoiled'
             PROVE  x \in Spoiled \/ (0 \in Ends /\ x = entry[w].id)
  OBVIOUS
<1>3. PICK n \in 0 .. MaxEntries : \E i \in DOMAIN file'[n].lines :
        file'[n].lines[i].id = x /\ file'[n].lines[i].kind # "json"
  BY SpoiledMeaningNext
<1>4. PICK i \in DOMAIN file'[n].lines :
        file'[n].lines[i].id = x /\ file'[n].lines[i].kind # "json"
  BY <1>3
<1>5. CASE n # 0
  BY <1>4, <1>5, WriteEffect, SpoiledMeaning
<1>6. CASE n = 0
  <2>1. CASE i \in DOMAIN Closed
    <3>1. i \in DOMAIN file[0].lines /\ file'[0].lines[i] = file[0].lines[i]
      BY <2>1, WriteEffect, ClosedType
    <3> QED BY <1>4, <1>6, <3>1, SpoiledMeaning
  <2>2. CASE file'[0].lines[i] = LineOf(entry[w])
    BY <1>1, <1>2, <1>4, <1>6, <2>2
  <2> QED BY <1>4, <1>6, <2>1, <2>2, WriteEffect
<1> QED BY <1>5, <1>6

\* The line that is glued to a rest is spoiled, and takes the rest with it.
LEMMA AppendKeepsSpoil ==
  ASSUME NEW w \in Writer, Shape, SpoilInv, AppendLine(w) \/ AppendUnsynced(w)
  PROVE  SpoilInv'
<1>1. pc[w] = "append" /\ WriteLine(w, "none") /\ tears' = tears /\ "none" \in Rest
  BY DEF AppendLine, AppendUnsynced, Rest
<1>2. Ends' = Ends \ {0}
  BY <1>1, WriteEffect DEF Ends
<1>3. Spoiled' \subseteq IF 0 \in Ends THEN Spoiled \cup {entry[w].id} ELSE Spoiled
  BY <1>1, WriteSpoils
<1>4. Cardinality(Spoiled') + Cardinality(Ends') <= Cardinality(Spoiled) + Cardinality(Ends)
  <2>1. \/ Spoiled' \subseteq Spoiled /\ Ends' \subseteq Ends
        \/ Spoiled' \subseteq Spoiled \cup {entry[w].id} /\ 0 \in Ends /\ Ends' \subseteq Ends \ {0}
    BY <1>2, <1>3
  <2> QED BY <2>1, SpoilFinite, SumKept
<1>5. /\ Cardinality(Spoiled) \in Nat /\ Cardinality(Ends) \in Nat
      /\ Cardinality(Spoiled') \in Nat /\ Cardinality(Ends') \in Nat
  <2>1. Cardinality(Spoiled) \in Nat /\ Cardinality(Ends) \in Nat
    BY SpoilFinite
  <2>2. Spoiled' \subseteq Spoiled \cup {entry[w].id} /\ Ends' \subseteq Ends
    BY <1>2, <1>3
  <2>3. IsFiniteSet(Spoiled \cup {entry[w].id}) /\ IsFiniteSet(Ends)
    BY SpoilFinite, FS_AddElement
  <2>4. IsFiniteSet(Spoiled') /\ IsFiniteSet(Ends')
    BY <2>2, <2>3, FS_Subset
  <2> QED BY <2>1, <2>4, FS_CardinalityType
<1>6. tears \in Nat
  BY DEF Shape
<1> QED BY <1>1, <1>4, <1>5, <1>6 DEF SpoilInv

\* A write that stops within its line leaves at most one more rest, and spoils
\* nothing yet.
LEMMA TearKeepsSpoil ==
  ASSUME NEW w \in Writer, Shape, SpoilInv, AppendPart(w) \/ AppendUnbroken(w)
  PROVE  SpoilInv'
<1>1. tears' = tears + 1 /\ tears \in Nat
  BY DEF AppendPart, AppendUnbroken, Shape
<1>2. Spoiled' \subseteq Spoiled /\ Ends' \subseteq Ends \cup {0}
  <2>1. CASE AppendPart(w)
    <3>1. Ends' \subseteq Ends \cup {0}
      BY <2>1, PartEffect DEF Ends
    <3>2. ASSUME NEW x \in Spoiled' PROVE x \in Spoiled
      <4>1. PICK n \in 0 .. MaxEntries : \E i \in DOMAIN file'[n].lines :
              file'[n].lines[i].id = x /\ file'[n].lines[i].kind # "json"
        BY <3>2, SpoiledMeaningNext
      <4>2. PICK i \in DOMAIN file'[n].lines :
              file'[n].lines[i].id = x /\ file'[n].lines[i].kind # "json"
        BY <4>1
      <4>3. i \in DOMAIN file[n].lines /\ file'[n].lines[i] = file[n].lines[i]
        <5>1. CASE n # 0
          BY <2>1, <4>2, <5>1, PartEffect
        <5>2. CASE n = 0
          BY <2>1, <4>2, <5>2, PartEffect, ClosedType
        <5> QED BY <5>1, <5>2
      <4> QED BY <4>2, <4>3, SpoiledMeaning
    <3> QED BY <3>1, <3>2
  <2>2. CASE AppendUnbroken(w)
    <3>1. pc[w] = "append" /\ WriteLine(w, "open") /\ file[0].rest = "none" /\ "open" \in Rest
      BY <2>2 DEF AppendUnbroken, Rest
    <3>2. 0 \notin Ends
      BY <3>1 DEF Ends
    <3>3. Spoiled' \subseteq Spoiled
      BY <3>1, <3>2, WriteSpoils
    <3> QED BY <3>1, <3>3, WriteEffect DEF Ends
  <2> QED BY <2>1, <2>2
<1>3. /\ IsFiniteSet(Spoiled) /\ IsFiniteSet(Ends)
      /\ Cardinality(Ends) \in Nat /\ Cardinality(Spoiled) \in Nat
  BY SpoilFinite
<1>4. /\ IsFiniteSet(Ends \cup {0})
      /\ Cardinality(Ends \cup {0}) \in {Cardinality(Ends), Cardinality(Ends) + 1}
  BY <1>3, FS_AddElement, Zenon
<1>5. /\ IsFiniteSet(Ends') /\ Cardinality(Ends') <= Cardinality(Ends \cup {0})
      /\ IsFiniteSet(Spoiled') /\ Cardinality(Spoiled') <= Cardinality(Spoiled)
  BY <1>2, <1>3, <1>4, FS_Subset
<1>6. Cardinality(Ends') \in Nat /\ Cardinality(Spoiled') \in Nat
  BY <1>5, FS_CardinalityType
<1> QED BY <1>1, <1>3, <1>4, <1>5, <1>6 DEF SpoilInv

\* A failed write spoils one entry at most, for any number of writers, failures
\* and rotations (audit_log_order, l.98-107).
THEOREM OneSpoiledPerFailure == Spec => []SpoiledBounded
<1>1. Init => Shape /\ SpoilInv
  <2> SUFFICES ASSUME Init PROVE Shape /\ SpoilInv
    OBVIOUS
  <2>1. Shape
    BY InvInit DEF Inv
  <2>2. \A n \in 0 .. MaxEntries : file[n].lines = <<>> /\ file[n].rest = "none"
    BY DEF Init, Absent
  <2>3. \A x : x \notin Spoiled
    BY <2>2, SpoiledMeaning
  <2>4. Spoiled = {} /\ Ends = {}
    BY <2>2, <2>3 DEF Ends
  <2> QED BY <2>1, <2>4, FS_EmptySet DEF SpoilInv, Init
<1>2. Shape /\ SpoilInv /\ [Next]_vars => (Shape /\ SpoilInv)'
  <2> SUFFICES ASSUME Shape, SpoilInv, [Next]_vars PROVE SpoilInv'
    BY ShapeNext
  <2>1. ASSUME UNCHANGED <<file, tears>> PROVE SpoilInv'
    BY <2>1 DEF SpoilInv, Spoiled, LinesOnDisk, Ends
  <2>2. ASSUME NEW w \in Writer, Build(w) \/ Look(w) \/ GiveUp(w) PROVE SpoilInv'
    BY <2>2, <2>1 DEF Build, Look, GiveUp, history
  <2>3. ASSUME NEW w \in Writer, Replace(w) \/ Writes(w) \/ AppendPart(w) PROVE SpoilInv'
    BY <2>3, ReplaceKeepsSpoil, AppendKeepsSpoil, TearKeepsSpoil DEF Writes
  <2>4. CASE UNCHANGED vars
    BY <2>4, <2>1 DEF vars, history
  <2> QED BY <2>2, <2>3, <2>4 DEF Next, Write, Fail, Writes
<1>3. Shape /\ SpoilInv => SpoiledBounded
  <2> SUFFICES ASSUME Shape, SpoilInv PROVE SpoiledBounded
    OBVIOUS
  <2>1. Cardinality(Spoiled) \in Nat /\ Cardinality(Ends) \in Nat /\ tears \in Nat
    BY SpoilFinite DEF Shape
  <2> QED BY <2>1 DEF SpoilInv, SpoiledBounded
<1> QED BY <1>1, <1>2, <1>3, PTL DEF Spec

\* Type correctness of the directory and the writers.
THEOREM AuditTypeOK == Spec => []TypeOK
<1>1. Init => Shape
  BY InvInit DEF Inv
<1>2. Shape /\ [Next]_vars => Shape'
  BY ShapeNext
<1>3. Shape => TypeOK
  BY DEF Shape, TypeOK, File
<1> QED BY <1>1, <1>2, <1>3, PTL DEF Spec
=============================================================================
