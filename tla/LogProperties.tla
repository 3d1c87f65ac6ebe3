---------------------------- MODULE LogProperties ----------------------------
(***************************************************************************)
(* What the archive of the device log promises                             *)
(* (src/tools/rolling_logs/README.md).                                     *)
(***************************************************************************)
EXTENDS LogArchive

LogTypeOK ==
  /\ ring \in [boot : Boot, next : 1..(MaxSeq + 1)]
  /\ reader \in ReaderState /\ queue \in Seq(Event) /\ Len(queue) <= QueueSize
  /\ recorder \in RecorderState /\ archive \in Archive
  /\ logMishaps \in 0..MaxLogMishaps

(* "Sequence gaps identify missing records": a record of a boot that has a  *)
(* later one in the archive is archived or named by a gap, and never both - *)
(* also when it was overwritten while a page was built, and across deaths   *)
(* of the recorder.                                                         *)
NothingIsLostSilently ==
  /\ archive.rows \cap archive.gaps = {}
  /\ \A id \in archive.rows : \A seq \in 1..(id[2] - 1) :
       <<id[1], seq>> \in archive.rows \cup archive.gaps

(* Everything that is logged is archived or named by a gap in the end,      *)
(* unless the device starts anew before: neither the queue at its limit nor *)
(* a page that is refused nor a restart of the recorder stops the reader.   *)
LastIsOpen ==
  /\ ring.next > 1 /\ recorder.pc # "stopped"
  /\ <<ring.boot, ring.next - 1>> \notin archive.rows \cup archive.gaps
LogsArrive == LastIsOpen ~> ~LastIsOpen
=============================================================================
