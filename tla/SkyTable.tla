------------------------------ MODULE SkyTable ------------------------------
(***************************************************************************)
(* The satellite table of components/gps/gps.cpp: the UART task hears the  *)
(* receiver's sentences one by one, collects the satellites of a sweep     *)
(* (GSV) and those in the solution (GSA), and publishes them when the RMC  *)
(* of the next cycle is heard.  The table is read by the web pages on the  *)
(* NTP task, which runs on the same core at a higher priority: a read is   *)
(* never interrupted, and comes between any two steps of the UART task.    *)
(* What a read returns is therefore an operator, GetSatellites, and what   *)
(* every read returns is an invariant about it.                            *)
(*                                                                         *)
(* The receiver is external: each cycle it sees a sky and reports it, and  *)
(* a sentence may be lost (its checksum fails, the UART overflows).  A     *)
(* measurement is represented by the number of the sweep that took it.     *)
(***************************************************************************)
EXTENDS Naturals, Sequences, FiniteSets

CONSTANTS
  Talkers,    \* the talkers of the receiver, in the order they report
  PerLine,    \* satellites in a GSV sentence (4)
  MaxSats,    \* entries of the table (MAX_SATS, 40)
  Skies,      \* the skies the receiver may see, in the order it reports them
  Combined,   \* TRUE in the set: a receiver with one talker, GN, for all GSA
  MaxSweeps,  \* bound on the receiver's cycles
  MaxLost     \* bound on sentences lost

Systems == {"gps", "sbas", "glonass", "galileo", "beidou", "qzss"}
Totals  == {"gps", "glonass", "galileo", "beidou"}

\* nmea_sys: GN has no system of its own and is taken for GPS.
Sys(talker) ==
  CASE talker = "GL" -> "glonass"
    [] talker = "GA" -> "galileo"
    [] talker \in {"GB", "BD"} -> "beidou"
    [] talker = "GQ" -> "qzss"
    [] OTHER -> "gps"

\* nmea_svid: the satellite an id names, augmentation apart from GPS.  It is kept
\* in a byte, so that an id past 255 names the satellite of its low one.
Byte(id) == id % 256

Svid(sys, id) ==
  IF sys = "gps" /\ id \in 33..64 THEN <<"sbas", id>>
  ELSE IF sys = "glonass" /\ id >= 65 THEN <<sys, Byte(id - 64)>> ELSE <<sys, Byte(id)>>

\* The total a talker's run is counted under: QZSS with GPS.
Total(talker) == IF Sys(talker) = "qzss" THEN "gps" ELSE Sys(talker)

\* A satellite as it is reported: by which talker, under which id, and whether
\* it is used.
Sights == [talker : DOMAIN Talkers, id : Nat \ {0}, used : BOOLEAN]
Identity(s) == Svid(Sys(Talkers[s.talker]), s.id)

\* Talkers report one after the other, and each satellite once.
ASSUME SkyAssumption ==
  /\ Talkers \in Seq(STRING) /\ Talkers # <<>> /\ {PerLine, MaxSats} \subseteq Nat \ {0}
  /\ Skies \subseteq Seq(Sights)
  /\ \A view \in Skies : \A i, j \in DOMAIN view :
       i < j => view[i].talker <= view[j].talker /\ Identity(view[i]) # Identity(view[j])
  /\ Combined \subseteq BOOLEAN /\ MaxSweeps \in Nat \ {0} /\ MaxLost \in Nat

VARIABLES
  sweep, sky, fix, combined,  \* the receiver: its cycle, what it sees, if it fixes
  says, lost,                 \* its next sentence, those lost
  satBuild, usedIds,          \* the sweep being collected
  place, nth,                 \* the UART task's place, the satellite or entry it is at
  satPub, satPubN,            \* the table published
  gsvTalker, gsvTracked,      \* the GSV run being summed
  qSatsUsed, qSats, qSatsTracked,  \* the totals published
  clean,                      \* history: every sentence since the last commit came
  whole,                      \* history: and the commit was of one cycle
  shown                       \* history: the table published before

receiverVars == <<sweep, sky, fix, combined, lost>>
buildVars    == <<satBuild, usedIds>>
tableVars    == <<satPub, satPubN>>
totalVars    == <<gsvTalker, gsvTracked, qSatsUsed, qSats, qSatsTracked>>
historyVars  == <<clean, whole, shown>>
skyVars == <<receiverVars, says, buildVars, place, nth, tableVars, totalVars, historyVars>>

-----------------------------------------------------------------------------
(* What the receiver says.                                                 *)

\* A sentence, of the talker it is about and from the satellite it begins at.
Says(kind, talker, from) == [kind |-> kind, talker |-> talker, from |-> from]

InView(t) == {i \in DOMAIN sky : sky[i].talker = t}
InUse     == {i \in DOMAIN sky : sky[i].used}

\* Satellite i is one of the sentence: of its talker and, in GSV, within the line.
Holds(i) ==
  /\ i \in InView(says.talker)
  /\ says.kind = "GSV" => i < says.from + PerLine

\* The sentence ends before satellite i.
EndsAt(i) == ~Holds(i) /\ \A j \in says.from..(i - 1) : Holds(j)

\* The sentence after one that ends before satellite i: GGA, a GSA and a run of
\* GSV per talker (of one sentence at least), and the RMC of the next cycle.
Following(i) ==
  LET t == says.talker
  IN  CASE says.kind = "GGA" -> Says("GSA", 1, 1)
        [] says.kind = "GSA" -> IF t < Len(Talkers) THEN Says("GSA", t + 1, i)
                                                    ELSE Says("GSV", 1, 1)
        [] says.kind = "GSV" -> IF i \in InView(t) THEN Says("GSV", t, i)
                                ELSE IF t < Len(Talkers) THEN Says("GSV", t + 1, i)
                                ELSE Says("RMC", 0, 1)
        [] OTHER -> Says("none", 0, 1)

-----------------------------------------------------------------------------
(* The table.                                                              *)

NoSatellite == [sat |-> <<"gps", 0>>, cn0 |-> 0, used |-> FALSE]

\* A satellite without signal is reported with C/N0 zero.  Of a measurement only
\* the sweep it was taken in is kept, so that there is nothing to clamp to a byte.
Entry(s) == [sat |-> Identity(s), cn0 |-> IF s.used THEN sweep ELSE 0, used |-> FALSE]

SatRecordUnbounded(table, e) ==
  IF \E k \in DOMAIN table : table[k].sat = e.sat THEN table ELSE Append(table, e)

\* A satellite already in the table, or one too many, is left out.
SatRecord(table, e) ==
  IF Len(table) >= MaxSats \/ \E k \in DOMAIN table : table[k].sat = e.sat
  THEN table ELSE Append(table, e)

UsedRecord(list, sat) == IF Len(list) < MaxSats THEN Append(list, sat) ELSE list

\* The collected sweep, its satellites marked that a GSA named.
Marked == [k \in DOMAIN satBuild |->
            [satBuild[k] EXCEPT !.used = @ \/ \E u \in DOMAIN usedIds :
                                                usedIds[u] = satBuild[k].sat]]

KeepUsed == satBuild' = <<>> /\ UNCHANGED usedIds

\* The next sweep starts clean.
Cleared == satBuild' = <<>> /\ usedIds' = <<>>

SkyInit ==
  /\ sweep = 1 /\ sky \in Skies /\ fix \in BOOLEAN /\ combined \in Combined
  /\ says = Says("GGA", 0, 1) /\ lost = 0
  /\ satBuild = <<>> /\ usedIds = <<>>
  /\ place = "listen" /\ nth = 0
  /\ satPub = [k \in 1..MaxSats |-> NoSatellite] /\ satPubN = 0
  /\ gsvTalker = "" /\ gsvTracked = 0
  /\ qSatsUsed = 0 /\ qSats = [s \in Totals |-> 0] /\ qSatsTracked = 0
  /\ clean = TRUE /\ whole = FALSE /\ shown = <<>>

-----------------------------------------------------------------------------
(* The UART task: a sentence, one of its satellites, or a step of publishing. *)

Hears(kind) == place = "listen" /\ says.kind = kind

ParseGga ==
  /\ Hears("GGA") /\ qSatsUsed' = Cardinality(InUse) /\ says' = Following(1)
  /\ UNCHANGED <<receiverVars, buildVars, place, nth, tableVars, gsvTalker, gsvTracked,
                 qSats, qSatsTracked, historyVars>>

ParseGsa ==
  /\ Hears("GSA") /\ place' = "gsa" /\ nth' = says.from
  /\ UNCHANGED <<receiverVars, says, buildVars, tableVars, totalVars, historyVars>>

\* A satellite in use has a field, and is attributed by the sentence's talker.
RecordUsed ==
  LET talker == IF combined THEN "GN" ELSE Talkers[says.talker]
  IN  /\ place = "gsa" /\ Holds(nth) /\ nth' = nth + 1
      /\ usedIds' = IF sky[nth].used
                    THEN UsedRecord(usedIds, Svid(Sys(talker), sky[nth].id)) ELSE usedIds
      /\ UNCHANGED <<receiverVars, says, satBuild, place, tableVars, totalVars, historyVars>>

ParsedGsa ==
  /\ place = "gsa" /\ ~Holds(nth)
  /\ place' = "listen" /\ nth' = 0 /\ says' = Following(nth)
  /\ UNCHANGED <<receiverVars, buildVars, tableVars, totalVars, historyVars>>

\* The run's sums start with its first sentence or another talker's.
ParseGsv ==
  LET first == \A i \in InView(says.talker) : says.from <= i
  IN  /\ Hears("GSV") /\ place' = "gsv" /\ nth' = says.from
      /\ gsvTalker' = Talkers[says.talker]
      /\ gsvTracked' = IF first \/ Talkers[says.talker] # gsvTalker THEN 0 ELSE gsvTracked
      /\ UNCHANGED <<receiverVars, says, buildVars, tableVars, qSatsUsed, qSats, qSatsTracked,
                     historyVars>>

RecordSat ==
  /\ place = "gsv" /\ Holds(nth) /\ nth' = nth + 1
  /\ satBuild' = SatRecord(satBuild, Entry(sky[nth]))
  /\ gsvTracked' = IF Entry(sky[nth]).cn0 > 0 THEN gsvTracked + 1 ELSE gsvTracked
  /\ UNCHANGED <<receiverVars, says, usedIds, place, tableVars, gsvTalker, qSatsUsed, qSats,
                 qSatsTracked, historyVars>>

\* The run's last sentence publishes its sums.
ParsedGsv ==
  /\ place = "gsv" /\ ~Holds(nth)
  /\ place' = "listen" /\ nth' = 0 /\ says' = Following(nth)
  /\ IF nth \in InView(says.talker)
     THEN UNCHANGED <<qSats, qSatsTracked>>
     ELSE /\ qSats' = [qSats EXCEPT ![Total(Talkers[says.talker])] =
                         Cardinality(InView(says.talker))]
          /\ qSatsTracked' = gsvTracked
  /\ UNCHANGED <<receiverVars, buildVars, tableVars, gsvTalker, gsvTracked, qSatsUsed,
                 historyVars>>

\* An RMC without a fix is no RMC: the sweep goes on being collected.
ParseRmcVoid ==
  /\ Hears("RMC") /\ ~fix
  /\ says' = Following(1) /\ clean' = FALSE /\ whole' = FALSE
  /\ UNCHANGED <<receiverVars, buildVars, place, nth, tableVars, totalVars, shown>>

\* satCommitCycle: mark the used ones, then publish what was collected, if any.
SatCommitCycle ==
  /\ Hears("RMC") /\ fix
  /\ says' = Following(1) /\ clean' = TRUE /\ whole' = clean
  /\ IF satBuild = <<>>
     THEN Cleared /\ UNCHANGED <<place, nth>>
     ELSE satBuild' = Marked /\ place' = "head" /\ nth' = 1 /\ UNCHANGED usedIds
  /\ UNCHANGED <<receiverVars, tableVars, totalVars, shown>>

\* An entry is two words: the satellite and its signal, then where it stands
\* and whether it is used.
CopyHead ==
  /\ place = "head" /\ place' = "tail"
  /\ satPub' = [satPub EXCEPT ![nth].sat = satBuild[nth].sat,
                              ![nth].cn0 = satBuild[nth].cn0]
  /\ UNCHANGED <<receiverVars, says, buildVars, nth, satPubN, totalVars, historyVars>>

MoreButOne(i) == i + 1 < Len(satBuild)
More(i) == i < Len(satBuild)

CopyTail ==
  /\ place = "tail"
  /\ satPub' = [satPub EXCEPT ![nth].used = satBuild[nth].used]
  /\ IF More(nth) THEN place' = "head" /\ nth' = nth + 1
                  ELSE place' = "count" /\ nth' = 0
  /\ UNCHANGED <<receiverVars, says, buildVars, satPubN, totalVars, historyVars>>

PublishCount ==
  /\ place = "count" /\ place' = "listen"
  /\ satPubN' = Len(satBuild) /\ shown' = satBuild
  /\ Cleared
  /\ UNCHANGED <<receiverVars, says, nth, satPub, totalVars, clean, whole>>

UartTask == ParseGga \/ ParseGsa \/ RecordUsed \/ ParsedGsa
            \/ ParseGsv \/ RecordSat \/ ParsedGsv \/ ParseRmcVoid \/ SatCommitCycle
            \/ CopyHead \/ CopyTail \/ PublishCount

-----------------------------------------------------------------------------
(* The receiver and the line.                                              *)

NextCycle ==
  /\ Hears("none") /\ sweep < MaxSweeps
  /\ sweep' = sweep + 1 /\ sky' \in Skies /\ fix' \in BOOLEAN
  /\ says' = Says("GGA", 0, 1) /\ whole' = FALSE
  /\ UNCHANGED <<combined, lost, buildVars, place, nth, tableVars, totalVars, clean, shown>>

Loses ==
  /\ place = "listen" /\ says.kind # "none" /\ lost < MaxLost
  /\ \E i \in says.from..(Len(sky) + 1) : EndsAt(i) /\ says' = Following(i)
  /\ lost' = lost + 1 /\ clean' = FALSE
  /\ UNCHANGED <<sweep, sky, fix, combined, buildVars, place, nth, tableVars, totalVars,
                 whole, shown>>

SkyNext == UartTask \/ NextCycle \/ Loses

SkySpec == SkyInit /\ [][SkyNext]_skyVars

-----------------------------------------------------------------------------
\* getSatellites: as many entries as the count says, whatever the UART task
\* was doing when it was preempted.
GetSatellites == [k \in 1..satPubN |-> satPub[k]]

Entries == [sat : Systems \X Nat, cn0 : Nat, used : BOOLEAN]
Sentences == [kind : {"GGA", "GSA", "GSV", "RMC", "none"}, talker : Nat, from : Nat \ {0}]
Names == {""} \cup {Talkers[t] : t \in DOMAIN Talkers}
Copying == place \in {"head", "tail", "count"}

SkyTypeOK ==
  /\ sweep \in 1..MaxSweeps /\ sky \in Skies /\ fix \in BOOLEAN /\ combined \in BOOLEAN
  /\ says \in Sentences /\ lost \in 0..MaxLost
  /\ place \in {"listen", "gsa", "gsv", "head", "tail", "count"} /\ nth \in Nat
  /\ satBuild \in Seq(Entries) /\ Len(satBuild) <= MaxSats
  /\ usedIds \in Seq(Systems \X Nat) /\ Len(usedIds) <= MaxSats
  /\ satPub \in [1..MaxSats -> Entries] /\ satPubN \in 0..MaxSats
  /\ gsvTalker \in Names /\ gsvTracked \in Nat
  /\ qSatsUsed \in Nat /\ qSats \in [Totals -> Nat] /\ qSatsTracked \in Nat
  /\ clean \in BOOLEAN /\ whole \in BOOLEAN
  /\ shown \in Seq(Entries) /\ Len(shown) <= MaxSats

\* Whatever was lost before, one cycle heard whole between two fixes puts the
\* table right: it holds the satellites in view in the order they were reported,
\* as many as fit and no others, with what was measured of them in this sweep;
\* those in the solution are marked when each constellation names its own; and
\* the totals agree with it, each with the last talker counted under it.
SweepHeals ==
  LET Rows == IF Len(sky) < MaxSats THEN Len(sky) ELSE MaxSats
  IN  whole /\ place = "listen" =>
        /\ sky # <<>> =>
             /\ satPubN = Rows
             /\ \A k \in 1..Rows :
                  /\ [GetSatellites[k] EXCEPT !.used = FALSE] = Entry(sky[k])
                  /\ combined \/ GetSatellites[k].used = sky[k].used
        /\ \A t \in DOMAIN Talkers :
             \/ \E later \in DOMAIN Talkers :
                  later > t /\ Total(Talkers[later]) = Total(Talkers[t])
             \/ qSats[Total(Talkers[t])] = Cardinality(InView(t))
        /\ qSatsUsed = Cardinality(InUse)

\* What remains of "Readers therefore always see one whole consistent sweep"
\* (gps.h:187-188): a read returns the table published last, and one that
\* preempts a commit returns, word for word, entries of that table or of the one
\* being published, never one of an older sweep and never one that was not
\* written.
SeenIsRecent ==
  \A k \in 1..satPubN :
    LET recent == {t \in {shown} \cup IF Copying THEN {satBuild} ELSE {} : k <= Len(t)}
    IN  /\ \E t \in recent : GetSatellites[k].sat = t[k].sat /\ GetSatellites[k].cn0 = t[k].cn0
        /\ \E t \in recent : GetSatellites[k].used = t[k].used
=============================================================================
