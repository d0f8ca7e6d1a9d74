----------------------------- MODULE BootIdentity -----------------------------
(***************************************************************************)
(* The boot identity of the flow controller (firmware/src/main.cpp,        *)
(* initialize_boot_identity): a counter kept in two EEPROM records, so     *)
(* that power may fail in the middle of writing one.  The host takes two   *)
(* boots for different exactly when their identities are.                  *)
(*                                                                         *)
(* A record is written byte after byte: magic, counter, crc.  A counter or *)
(* crc of which some bytes are written is any value.  The crc is modelled  *)
(* by the counter it was computed from, so a torn counter always differs   *)
(* from its crc: collisions of CRC-16 are left out.                        *)
(*                                                                         *)
(* Firmware, the loop that runs once setup() is done, has an Init, a Next  *)
(* and a Spec of its own: those here carry the name of setup().            *)
(***************************************************************************)
EXTENDS Integers

CONSTANT MaxBoot  \* UINT32_MAX for the boot counter

ASSUME MaxBootAssumption == MaxBoot \in Nat \ {0}

VARIABLES
  eeprom,   \* the two records
  boot,     \* g_boot_counter
  pc,       \* how far setup() has come
  announced \* history: the identity last sent to the host, 0 at first

setupVars == <<eeprom, boot, pc, announced>>

Counters == 0..MaxBoot
BootRecord == [magic : BOOLEAN, counter : Counters, crc : Counters]
Erased == [magic |-> FALSE, counter |-> 0, crc |-> 0]

Writing == {"magic", "counter", "crc"}
Stages  == {"off", "running"} \cup Writing

SetupTypeOK ==
  /\ eeprom \in [{0, 1} -> BootRecord]
  /\ boot \in Counters
  /\ pc \in Stages
  /\ announced \in Counters
  /\ pc # "off" => boot # 0

SetupInit ==
  /\ eeprom = [i \in {0, 1} |-> Erased]
  /\ boot = 0
  /\ pc = "off"
  /\ announced = 0

(* valid_boot_record() *)
Valid(record) == record.magic /\ record.counter > 0 /\ record.crc = record.counter

(* The highest counter of a valid record, or 0. *)
Previous(records) ==
  LET first  == IF Valid(records[0]) THEN records[0].counter ELSE 0
      second == IF Valid(records[1]) THEN records[1].counter ELSE 0
  IN  IF second > first THEN second ELSE first

NextBoot(records) ==
  IF Previous(records) = MaxBoot THEN MaxBoot ELSE Previous(records) + 1

(* Mutant: the record that is being replaced is the only one. *)
DestinationFixed(counter) == 0 * counter

(* Even counters go to the first record, odd ones to the second. *)
Destination(counter) == counter % 2

(* Bytes of old may already be those of new.  EEPROM.put() leaves a byte   *)
(* that does not change alone.                                             *)
Torn(old, new) == IF old = new THEN {new} ELSE Counters

-------------------------------------------------------------------------------
(* Mutant: a counter that is used up starts again. *)
PowerOnWraps ==
  /\ pc = "off"
  /\ boot' = IF Previous(eeprom) = MaxBoot THEN 1 ELSE Previous(eeprom) + 1
  /\ pc' = "magic"
  /\ UNCHANGED <<eeprom, announced>>

PowerOn ==
  /\ pc = "off"
  /\ boot' = NextBoot(eeprom)
  /\ pc' = "magic"
  /\ UNCHANGED <<eeprom, announced>>

WriteMagic ==
  /\ pc = "magic"
  /\ eeprom' = [eeprom EXCEPT ![Destination(boot)].magic = TRUE]
  /\ pc' = "counter"
  /\ UNCHANGED <<boot, announced>>

TearCounter ==
  /\ pc = "counter"
  /\ \E c \in Torn(eeprom[Destination(boot)].counter, boot) :
       eeprom' = [eeprom EXCEPT ![Destination(boot)].counter = c]
  /\ UNCHANGED <<boot, pc, announced>>

WriteCounter ==
  /\ pc = "counter"
  /\ eeprom' = [eeprom EXCEPT ![Destination(boot)].counter = boot]
  /\ pc' = "crc"
  /\ UNCHANGED <<boot, announced>>

TearCrc ==
  /\ pc = "crc"
  /\ \E c \in Torn(eeprom[Destination(boot)].crc, boot) :
       eeprom' = [eeprom EXCEPT ![Destination(boot)].crc = c]
  /\ UNCHANGED <<boot, pc, announced>>

(* The record is complete: setup() ends and loop() answers HELLO. *)
WriteCrc ==
  /\ pc = "crc"
  /\ eeprom' = [eeprom EXCEPT ![Destination(boot)].crc = boot]
  /\ pc' = "running"
  /\ announced' = boot
  /\ UNCHANGED boot

PowerLoss ==
  /\ pc # "off"
  /\ pc' = "off"
  /\ UNCHANGED <<eeprom, boot, announced>>

SetupNext ==
  \/ PowerOn \/ WriteMagic \/ TearCounter \/ WriteCounter \/ TearCrc \/ WriteCrc
  \/ PowerLoss

SetupSpec == SetupInit /\ [][SetupNext]_setupVars

-------------------------------------------------------------------------------
(* A valid record is in the place its counter belongs to, and no counter   *)
(* was announced that a valid record does not remember, wherever power     *)
(* fails: at most the next counter is being written, to the other record.  *)
Remembered ==
  /\ \A i \in {0, 1} : Valid(eeprom[i]) => Destination(eeprom[i].counter) = i
  /\ announced <= Previous(eeprom)
  /\ pc \in Writing => boot = MaxBoot \/ Previous(eeprom) \in {boot - 1, boot}

(* Two boots are announced under two identities, the later one higher, as  *)
(* long as the counter is not used up.  The host's binding of a session to *)
(* (device, boot, sequence) rests on it.                                   *)
BootsDiffer ==
  [][(pc = "crc" /\ pc' = "running") =>
        (announced' > announced \/ announced = MaxBoot)]_setupVars
===============================================================================
