------------------------------ MODULE FileTransfer ------------------------------
(***************************************************************************)
(* The programs of pro/, which start.sh runs side by side: send/procpp.cpp *)
(* writes records of the class Person into stream.dat, one after the       *)
(* other, and rece/getproto.cpp reads the file again and again.  Nothing   *)
(* keeps them apart.  Opening the file for writing truncates it; a record  *)
(* is smaller than the buffer of the stream and reaches the file when the  *)
(* stream is closed; the reader reads until a read returns nothing.        *)
(*                                                                         *)
(* Both streams are open when their loop begins, so that the first open of *)
(* each loop fails.                                                        *)
(***************************************************************************)
EXTENDS Integers, Sequences

\* The namespace of the generated class: tutorial!X is tutorial::Person::X.
tutorial == INSTANCE Person

CONSTANTS
  Name, Email,   \* what the source calls "inoue satoshi" and "s19c1012"
  Old,           \* what the file may hold beforehand
  Rounds,        \* turns of the writer's loop: 10 in the source
  Readings       \* turns of the reader's loop: 40 in the source

ASSUME LoopAssumption == Rounds \in Nat \ {0, 1} /\ Readings \in Nat
ASSUME ByteAssumption ==
  /\ Name \in Seq(tutorial!Byte) /\ Email \in Seq(tutorial!Byte)
  /\ \A bytes \in Old : bytes \in Seq(tutorial!Byte)

VARIABLES
  file,          \* the bytes of stream.dat
  exists,        \* whether there is a stream.dat
  writer,        \* start, open, written, closed, done, ended
  failed,        \* the fail bit of output
  buffered,      \* what output has not written yet
  round,
  person,
  reader,        \* start, idle, reading, done
  input,         \* the state of the reader's stream: closed, open, failed
  got,           \* what this turn has read so far
  reading,
  getperson

fileVars == <<file, exists>>
writerVars == <<writer, failed, buffered, round, person>>
readerVars == <<reader, input, got, reading, getperson>>
transferVars == <<fileVars, writerVars, readerVars>>

Filled(p, n) == tutorial!set_id(tutorial!set_email(tutorial!set_name(p, Name), Email), n)
Text == <<105, 110, 116>>  \* "int"

TransferInit ==
  /\ exists \in BOOLEAN
  /\ file \in IF exists THEN Old ELSE {<< >>}
  /\ writer = "start" /\ failed = FALSE /\ buffered = << >> /\ round = 0
  /\ person = tutorial!SharedCtor
  /\ reader = "start" /\ input = "closed" /\ got = << >> /\ reading = 0
  /\ getperson = tutorial!SharedCtor

-----------------------------------------------------------------------------
(* The writer *)

Truncate == file' = << >> /\ exists' = TRUE

\* The constructor of output opens the file; the text stays in its buffer.
WriterStarts ==
  /\ writer = "start"
  /\ Truncate
  /\ person' = Filled(person, 123)
  /\ buffered' = Text
  /\ writer' = "open"
  /\ UNCHANGED <<failed, round, readerVars>>

\* Mutant of OpenOutput: the stream is flushed behind the name of the record.
OpenOutput_Flushes ==
  /\ writer \in {"open", "closed"} /\ round < Rounds
  /\ writer' = "written"
  /\ \/ writer = "open" /\ failed' = TRUE /\ UNCHANGED <<fileVars, buffered>>
     \/ LET bytes == tutorial!InternalSerialize(person)
            name == tutorial!InternalSerialize(tutorial!clear_email(tutorial!clear_id(person)))
        IN /\ writer = "closed" /\ failed' = FALSE
           /\ file' = name /\ exists' = TRUE
           /\ buffered' = SubSeq(bytes, Len(name) + 1, Len(bytes))
  /\ UNCHANGED <<round, person, readerVars>>

\* open, then SerializeToOstream.  A stream that is open already cannot be
\* opened: it fails, nothing is serialised, and "serialize" is printed all the
\* same.  An open that succeeds clears the fail bit.
OpenOutput ==
  /\ writer \in {"open", "closed"} /\ round < Rounds
  /\ writer' = "written"
  /\ \/ writer = "open" /\ failed' = TRUE /\ UNCHANGED <<fileVars, buffered>>
     \/ /\ writer = "closed" /\ Truncate
        /\ failed' = FALSE /\ buffered' = tutorial!InternalSerialize(person)
  /\ UNCHANGED <<round, person, readerVars>>

\* close writes what is buffered; then the record of the next turn is made.
CloseOutput ==
  /\ writer = "written"
  /\ file' = file \o buffered
  /\ buffered' = << >>
  /\ person' = Filled(tutorial!clear_email(tutorial!clear_name(tutorial!clear_id(person))), round)
  /\ round' = round + 1
  /\ writer' = IF round' = Rounds THEN "done" ELSE "closed"
  /\ UNCHANGED <<exists, failed, readerVars>>

\* The writer is killed: what is buffered is lost, a truncated file stays.
WriterDies ==
  /\ writer \notin {"start", "done", "ended"}
  /\ writer' = "ended"
  /\ buffered' = << >>
  /\ UNCHANGED <<failed, round, person, fileVars, readerVars>>

-----------------------------------------------------------------------------
(* The reader *)

ReaderStarts ==
  /\ reader = "start"
  /\ reader' = "idle"
  /\ input' = IF exists THEN "open" ELSE "closed"
  /\ UNCHANGED <<got, reading, getperson, fileVars, writerVars>>

\* Mutant of OpenInput: the bytes of the turn before are kept.
OpenInput_Keeps ==
  /\ reader = "idle" /\ reading < Readings
  /\ input' = IF input = "open" \/ ~exists THEN "failed" ELSE "open"
  /\ reader' = "reading"
  /\ UNCHANGED <<got, reading, getperson, fileVars, writerVars>>

OpenInput ==
  /\ reader = "idle" /\ reading < Readings
  /\ input' = IF input = "open" \/ ~exists THEN "failed" ELSE "open"
  /\ got' = << >>
  /\ reader' = "reading"
  /\ UNCHANGED <<reading, getperson, fileVars, writerVars>>

\* What a reading that has got bytes has got when it goes on in a file of others.
Continued(bytes, others) ==
  IF Len(others) > Len(bytes)
  THEN bytes \o SubSeq(others, Len(bytes) + 1, Len(others))
  ELSE bytes

\* Reads what the file holds behind the position by now, be it the record that
\* was there when the reading began or another one.
ReadMore ==
  /\ reader = "reading" /\ input = "open"
  /\ Len(file) > Len(got)
  /\ got' = Continued(got, file)
  /\ UNCHANGED <<reader, input, reading, getperson, fileVars, writerVars>>

\* A read that returns nothing ends the input, as a stream that has failed does;
\* then the bytes are parsed, the file closed and the record shown.
ReadEnd ==
  /\ reader = "reading"
  /\ input = "open" => Len(file) <= Len(got)
  /\ getperson' = tutorial!Parse(getperson, got).msg
  /\ input' = "closed"
  /\ reading' = reading + 1
  /\ reader' = IF reading' = Readings THEN "done" ELSE "idle"
  /\ UNCHANGED <<got, fileVars, writerVars>>

-----------------------------------------------------------------------------
TransferNext ==
  \/ WriterStarts \/ OpenOutput \/ CloseOutput \/ WriterDies
  \/ ReaderStarts \/ OpenInput \/ ReadMore \/ ReadEnd

TransferSpec == TransferInit /\ [][TransferNext]_transferVars

\* The reader's loop goes on; the writer may stop anywhere.
FairTransferSpec ==
  /\ TransferSpec
  /\ WF_transferVars(OpenInput) /\ WF_transferVars(ReadMore) /\ WF_transferVars(ReadEnd)

-----------------------------------------------------------------------------
(* Properties *)

Record(n) == Filled(tutorial!SharedCtor, n)
Serialized(n) == tutorial!InternalSerialize(Record(n))

ShowsNothingOrOne(p) ==
  \/ p.has = {}
  \/ p \in {Record(n) : n \in (0 .. Rounds - 2) \union {123}}
         \union {tutorial!Parse(tutorial!SharedCtor, b).msg : b \in Old}

\* What a reading can have got before the first record is in the file.
EarlierReadings ==
  LET before == Old \union {<< >>} IN before \union {Continued(b, Text) : b \in before}

\* What is assumed of the strings of the source and of the file that is there
\* beforehand: that no earlier reading, nor one that goes on in a record, is
\* taken for a message of other fields.  (A Name that makes a field of what
\* "int" leaves of a record would be such a one.)  Records of numbers below 128
\* have the same length, so that none is continued in another.
ASSUME TornAssumption ==
  /\ Rounds - 2 < 128
  /\ \A b \in EarlierReadings \ {<< >>} :
       /\ ShowsNothingOrOne(tutorial!Parse(tutorial!SharedCtor, b).msg)
       /\ \A n \in 0 .. Rounds - 2 :
            ShowsNothingOrOne(tutorial!Parse(tutorial!SharedCtor, Continued(b, Serialized(n))).msg)

\* However a reading falls between the truncation and the writing of the file,
\* the reader shows no field at all, or all fields of one record: one that was
\* in the file before or one of this writer's.  It does not ask that all are
\* seen: the turn of the first, number 123, writes "int" instead, which the
\* reader takes for the beginning of an unknown field.
ShowsOneRecord == ShowsNothingOrOne(getperson)

\* Once the writer is done, a turn of the reader that begins shows the last
\* record; only the first turn of all may fail.
LastRecordIsShown ==
  (writer = "done" /\ reader = "idle" /\ reading \in 1 .. Readings - 1)
    ~> getperson = Record(Rounds - 2)

\* The laws of the generated class, for the writer's message and the reader's,
\* with the unknown fields that "int" leaves in it: no value hides behind a bit
\* that is not set, so that clearing leaves nothing behind; parsing two messages
\* written one behind the other merges the second into the first; the size that
\* is computed is the size that is written; a message that was copied, either
\* way, is the same, and swapping or moving loses nothing.
PersonLaws ==
  \A a, b \in {person, getperson} :
    /\ \A f \in tutorial!Fields \ a.has : a[f] = tutorial!Empty(f)
    /\ tutorial!Clear(a) = tutorial!SharedCtor
    /\ tutorial!Parse(a, tutorial!InternalSerialize(a) \o tutorial!InternalSerialize(b)).msg
         = tutorial!MergeFrom(a, b)
    /\ tutorial!ByteSizeLong(a) = Len(tutorial!InternalSerialize(a))
    /\ tutorial!CopyFrom(a, b) = b /\ tutorial!CopyConstructor(b) = b
    /\ tutorial!Swap(a, b) = <<b, a>>
    /\ tutorial!MoveConstructor(a) = <<a, tutorial!SharedCtor>>
=============================================================================
