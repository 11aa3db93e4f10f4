------------------------------- MODULE SdCard --------------------------------
(***************************************************************************)
(* The SD card driver, drivers/sdi.c: SDI_init brings the card from idle   *)
(* to the transfer state, and Read_Block and Write_Block move sectors.     *)
(* The driver polls; a step is one command with its answer, or one sector  *)
(* of data.  The card is external: a state machine that answers a command  *)
(* only in the states that know it, and programs what it was given on its  *)
(* own.  A fault is a command or an answer that is lost, an answer with a  *)
(* bad CRC, which Chk_CMD_End takes for good, or a sector that comes late  *)
(* or with a bad CRC.  The error bit may come after the driver's look at   *)
(* it: the next look, one sector later, finds it, but after the last       *)
(* sector only SDI_CheckDATend looks, which returns 1 all the same.        *)
(*                                                                         *)
(* A sector is one value.  Addr is the number of a sector, as the TODO in  *)
(* Read_Mult_Block says: only calls to high capacity cards are modelled.   *)
(* The unit of time of the loops of SDI_init is a try.                     *)
(***************************************************************************)
EXTENDS Naturals, Sequences

CONSTANTS Kinds,      \* cards: "mmc", "sd1", "sd2", "sdhc", "absent"
          Sectors,    \* sectors of the card
          Contents,   \* of a sector
          Transfers,  \* the calls: [write, addr, count]
          Tries,      \* of ACMD41: 20 * 100 in the code
          MaxTransfers, MaxFaults  \* bounds on the behaviour

ASSUME SdAssumption ==
  /\ {Sectors, Tries} \subseteq Nat \ {0} /\ {MaxTransfers, MaxFaults} \subseteq Nat
  /\ Transfers \subseteq [write : BOOLEAN, addr : Nat, count : Nat \ {0}]
  /\ \A t \in Transfers : t.addr + t.count <= Sectors

VARIABLES sdpc,     \* where the driver is
          SDCard,   \* what it knows: [cCardType, iCardRCA]
          tries,
          xfer,     \* the transfer: [write, addr, count, moved, good]; good: of
                    \* the sectors moved, those before the first that went wrong
          sdret,    \* what the last call has returned
          card,     \* [kind, state, multi, busy, wide, rca]
          sectors, initial,  \* of the card, and at the start of the call
          buffer,   \* the caller's
          calls, sdfaults

driverVars == <<sdpc, SDCard, tries, xfer, sdret, initial, buffer, calls>>
sdVars     == <<driverVars, card, sectors, sdfaults>>

-----------------------------------------------------------------------------
(* The card: the states in which it knows a command, and what it does. *)

SdKinds == {"sd1", "sd2", "sdhc"}

Knows(c, cmd) ==
  CASE cmd = "CMD1"   -> c.kind = "mmc" /\ c.state = "idle"
    [] cmd = "CMD8"   -> c.kind \in {"sd2", "sdhc"} /\ c.state = "idle"
    [] cmd = "ACMD41" -> c.kind \in SdKinds /\ c.state = "idle"
    [] cmd = "CMD2"   -> c.state = "ready"
    [] cmd = "CMD3"   -> c.state = "ident"
    [] cmd \in {"CMD9", "CMD7"} -> c.state = "stby" /\ SDCard.iCardRCA = c.rca
    [] cmd = "ACMD6"  -> c.state = "tran" /\ SDCard.iCardRCA = c.rca
    [] cmd \in {"CMD17", "CMD18", "CMD24", "CMD25"} -> c.state = "tran"
    [] OTHER (* CMD12 *) -> c.state \in {"data", "rcv"}

After(c, cmd) ==
  CASE cmd \in {"CMD1", "ACMD41"} -> [c EXCEPT !.state = "ready"]
    [] cmd = "CMD2"  -> [c EXCEPT !.state = "ident"]
    [] cmd = "CMD3"  -> [c EXCEPT !.state = "stby"]
    [] cmd = "CMD7"  -> [c EXCEPT !.state = "tran"]
    [] cmd = "ACMD6" -> [c EXCEPT !.wide = TRUE]
    [] cmd \in {"CMD17", "CMD18"} -> [c EXCEPT !.state = "data", !.multi = cmd = "CMD18"]
    [] cmd \in {"CMD24", "CMD25"} -> [c EXCEPT !.state = "rcv", !.multi = cmd = "CMD25"]
    [] cmd = "CMD12" -> [c EXCEPT !.state = IF @ = "data" THEN "tran" ELSE "prg"]
    [] OTHER -> c

\* Sends cmd: the answer is "good", "none" or, with a bad CRC, "garbled".
Send(cmd, answer) ==
  \/ /\ Knows(card, cmd) /\ answer = "good"
     /\ card' = After(card, cmd) /\ UNCHANGED sdfaults
  \/ /\ ~Knows(card, cmd) /\ answer = "none"
     /\ UNCHANGED <<card, sdfaults>>
  \/ /\ Knows(card, cmd) /\ answer \in {"none", "garbled"} /\ sdfaults > 0
     /\ card' = After(card, cmd) /\ sdfaults' = sdfaults - 1
  \/ /\ Knows(card, cmd) /\ answer = "none" /\ sdfaults > 0
     /\ sdfaults' = sdfaults - 1 /\ UNCHANGED card

Answer == {"good", "none", "garbled"}

\* It is ready for more, has programmed what it was given, or has sent the one
\* sector that nobody waited for.
CardGoesOn ==
  /\ \/ card.busy /\ card' = [card EXCEPT !.busy = FALSE]
     \/ ~card.busy /\ card.state = "prg" /\ card' = [card EXCEPT !.state = "tran"]
     \/ /\ card.state = "data" /\ ~card.multi /\ sdpc = "start"
        /\ card' = [card EXCEPT !.state = "tran"]
  /\ UNCHANGED <<driverVars, sectors, sdfaults>>

-----------------------------------------------------------------------------
(* SDI_init *)

Return(ret) == sdpc' = "ready" /\ sdret' = ret

unmoved == <<xfer, initial, buffer, calls, sectors>>

\* The caller initialises the card once.
Boot ==
  /\ sdpc = "boot"
  /\ sdpc' = "CMD0"
  /\ UNCHANGED <<SDCard, tries, sdret, unmoved, card, sdfaults>>

\* CMD0 puts any card into the idle state.
CMD0 ==
  /\ sdpc = "CMD0"
  /\ sdpc' = "CMD1"
  /\ card' = [card EXCEPT !.state = IF card.kind = "absent" THEN @ ELSE "idle"]
  /\ UNCHANGED <<SDCard, tries, sdret, unmoved, sdfaults>>

\* A card that is still powering up answers, and CMD1 returns 0.
CMD1 ==
  /\ sdpc = "CMD1"
  /\ \E a \in Answer, up \in BOOLEAN :
       /\ Send("CMD1", a)
       /\ IF a = "good" /\ up
          THEN sdpc' = "ACMD41" /\ SDCard' = [SDCard EXCEPT !.cCardType = "MMC_CARD"]
          ELSE sdpc' = "CMD8" /\ UNCHANGED SDCard
  /\ UNCHANGED <<tries, sdret, unmoved>>

\* A card of unknown kind is not refused here.
CMD8 ==
  /\ sdpc = "CMD8"
  /\ sdpc' = "ACMD41"
  /\ \E a \in Answer :
       /\ Send("CMD8", a)
       /\ SDCard' = [SDCard EXCEPT !.cCardType =
            CASE a = "good" -> "SDHC_V20_CARD" [] a = "none" -> "SD_V1X_CARD"
              [] OTHER -> "INVALID_CARD"]
  /\ UNCHANGED <<tries, sdret, unmoved>>

\* Mutant: the tries are not counted.
MutAgain(t) == t

\* One turn of the loops around ACMD41
Again(t) == t + 1

ACMD41 ==
  /\ sdpc = "ACMD41"
  /\ \/ /\ Send("ACMD41", "good")
        /\ sdpc' = "CMD2"
        /\ UNCHANGED <<sdret, tries>>
     \/ /\ \/ \E a \in {"none", "garbled"} : Send("ACMD41", a)
           \/ Knows(card, "ACMD41") /\ UNCHANGED <<card, sdfaults>>  \* powering up
        /\ tries' = Again(tries)
        /\ IF tries' >= Tries THEN Return(0) ELSE UNCHANGED <<sdpc, sdret>>
  /\ UNCHANGED <<SDCard, unmoved>>

\* CMD2, CMD3, CMD9, CMD7, ACMD6: the call fails when one is not answered.
Ladder == [CMD2 |-> "CMD3", CMD3 |-> "CMD9", CMD9 |-> "CMD7", CMD7 |-> "ACMD6",
           ACMD6 |-> "start"]
\* The address of CMD3; its test of the card's state can never fail.
Address(cmd, a) ==
  IF cmd # "CMD3" THEN SDCard.iCardRCA ELSE IF a = "good" THEN card.rca ELSE 0
Climb ==
  /\ sdpc \in DOMAIN Ladder
  /\ \E a \in Answer :
       /\ Send(sdpc, a)
       /\ IF a = "none"
          THEN Return(0) /\ UNCHANGED <<SDCard, xfer, initial, buffer>>
          ELSE /\ sdpc' = Ladder[sdpc]
               /\ SDCard' = [SDCard EXCEPT !.iCardRCA = Address(sdpc, a)]
               /\ xfer' = [write |-> FALSE, addr |-> 0, count |-> 1, moved |-> 0, good |-> 0]
               /\ initial' = sectors
               /\ buffer' = <<>>
               /\ UNCHANGED sdret
  /\ UNCHANGED <<tries, calls, sectors>>

SDI_init == CMD0 \/ CMD1 \/ CMD8 \/ ACMD41 \/ Climb

-----------------------------------------------------------------------------
(* Read_Mult_Block and Write_Mult_Block *)

Call(t, data) ==
  /\ sdpc = "ready" /\ calls > 0
  /\ sdret = 1 \/ calls < MaxTransfers   \* SDI_init has succeeded
  /\ card.kind = "sdhc"
  /\ sdpc' = "start"
  /\ xfer' = [write |-> t.write, addr |-> t.addr, count |-> t.count, moved |-> 0,
             good |-> 0]
  /\ buffer' = IF t.write THEN data ELSE <<>>
  /\ initial' = sectors
  /\ calls' = calls - 1
  /\ UNCHANGED <<SDCard, tries, sdret, card, sectors, sdfaults>>

StartCmd(x) ==
  IF x.write THEN IF x.count = 1 THEN "CMD24" ELSE "CMD25"
             ELSE IF x.count = 1 THEN "CMD17" ELSE "CMD18"

\* Repeated until it is answered.
Start ==
  /\ sdpc = "start"
  /\ \E a \in Answer : /\ Send(StartCmd(xfer), a)
                       /\ sdpc' = IF a = "none" THEN "start" ELSE "move"
  /\ UNCHANGED <<SDCard, tries, sdret, unmoved>>

\* Mutant: each sector goes to the address that the call was given.
MutSector(x) == x.addr

\* The sector that is moved next
Sector(x) == x.addr + x.moved

\* CMD12 "to change SD states to tran"
Stops(x) == x.count > 1

\* SDI_CheckDATend returns 1 whatever it finds, an error of the last sector, too.
Finish(x) == IF Stops(x) THEN "stop" ELSE IF x.write THEN "program" ELSE "done"

Took(x, sound) == [x EXCEPT !.moved = @ + 1, !.good = IF sound THEN @ + 1 ELSE @]

\* The error bit of a sector moved earlier is set in SDIDSTA.
Unsound(x) == x.good < x.moved

AfterSector == IF xfer'.moved = xfer.count THEN Finish(xfer) ELSE "move"

ReadSector ==
  /\ sdpc = "move" /\ ~xfer.write /\ card.state = "data"
  /\ card' = [card EXCEPT !.state = IF card.multi THEN "data" ELSE "tran"]
  /\ \/ /\ ~Unsound(xfer)
        /\ xfer' = Took(xfer, TRUE)
        /\ buffer' = Append(buffer, sectors[Sector(xfer)])
        /\ sdpc' = AfterSector
        /\ UNCHANGED <<sdret, sdfaults>>
     \/ /\ ~Unsound(xfer) /\ sdfaults > 0   \* CRC error, after the driver's look
        /\ sdfaults' = sdfaults - 1
        /\ xfer' = Took(xfer, FALSE)
        /\ \E v \in Contents : buffer' = Append(buffer, v)
        /\ sdpc' = AfterSector
        /\ UNCHANGED sdret
     \/ /\ \/ sdfaults > 0 /\ sdfaults' = sdfaults - 1   \* time-out or CRC error
           \/ Unsound(xfer) /\ UNCHANGED sdfaults
        /\ Return(0)
        /\ UNCHANGED <<buffer, xfer>>
  /\ UNCHANGED <<SDCard, tries, initial, calls, sectors>>

\* The card refuses a sector with a bad CRC, and drops those that follow it.
WriteSector ==
  /\ sdpc = "move" /\ xfer.write
  /\ ~card.busy
  /\ \/ /\ ~Unsound(xfer)
        /\ xfer' = Took(xfer, TRUE)
        /\ sectors' = [sectors EXCEPT ![Sector(xfer)] = buffer[xfer.moved + 1]]
        /\ card' = [card EXCEPT !.busy = TRUE,
                                !.state = IF card.multi THEN "rcv" ELSE "prg"]
        /\ UNCHANGED sdfaults
     \/ /\ \/ sdfaults > 0 /\ sdfaults' = sdfaults - 1
           \/ Unsound(xfer) /\ UNCHANGED sdfaults
        /\ xfer' = Took(xfer, FALSE)
        /\ card' = [card EXCEPT !.state = IF card.multi THEN "rcv" ELSE "tran"]
        /\ UNCHANGED sectors
  /\ sdpc' = "poll"
  /\ UNCHANGED <<SDCard, tries, sdret, initial, buffer, calls>>

\* CMD13 until the card is ready for data; a garbled answer ends it, too.  Then the
\* driver looks for a CRC error; this sector's may not have come yet.
Poll ==
  /\ sdpc = "poll"
  /\ \/ ~card.busy /\ UNCHANGED sdfaults
     \/ sdfaults > 0 /\ sdfaults' = sdfaults - 1
  /\ \/ Unsound(xfer) /\ Return(0)
     \/ /\ xfer.moved - xfer.good < 2
        /\ sdpc' = IF xfer.moved = xfer.count THEN Finish(xfer) ELSE "move"
        /\ UNCHANGED sdret
  /\ UNCHANGED <<SDCard, tries, unmoved, card>>

\* CMD12, repeated until it is answered
SendStop ==
  /\ sdpc = "stop"
  /\ \E a \in Answer :
       /\ Send("CMD12", a)
       /\ sdpc' = IF a = "none" THEN "stop" ELSE IF xfer.write THEN "program" ELSE "done"
  /\ UNCHANGED <<SDCard, tries, sdret, unmoved>>

\* CMD13 until the card is back in the transfer state
Programmed ==
  /\ sdpc = "program"
  /\ \/ card.state = "tran" /\ ~card.busy /\ UNCHANGED sdfaults
     \/ sdfaults > 0 /\ sdfaults' = sdfaults - 1
  /\ sdpc' = "done"
  /\ UNCHANGED <<SDCard, tries, sdret, unmoved, card>>

Succeed ==
  /\ sdpc = "done"
  /\ Return(1)
  /\ UNCHANGED <<SDCard, tries, unmoved, card, sdfaults>>

-----------------------------------------------------------------------------
SdInit ==
  /\ sdpc = "boot" /\ sdret = 0 /\ tries = 0
  /\ SDCard = [cCardType |-> "", iCardRCA |-> 0]
  /\ xfer = [write |-> FALSE, addr |-> 0, count |-> 1, moved |-> 0, good |-> 0]
  /\ \E k \in Kinds :
       card = [kind |-> k, state |-> IF k = "absent" THEN "absent" ELSE "idle",
               multi |-> FALSE, busy |-> FALSE, wide |-> FALSE, rca |-> 1]
  /\ sectors = [s \in 0 .. Sectors - 1 |-> CHOOSE v \in Contents : TRUE]
  /\ initial = sectors
  /\ buffer = <<>>
  /\ calls = MaxTransfers
  /\ sdfaults = MaxFaults

Driver == SDI_init \/ Start \/ ReadSector \/ WriteSector \/ Poll \/ SendStop \/ Programmed \/ Succeed
Caller == Boot \/ \E t \in Transfers : \E data \in [1 .. t.count -> Contents] : Call(t, data)
SdNext == Driver \/ Caller \/ CardGoesOn
SdSpec == SdInit /\ [][SdNext]_sdVars /\ WF_sdVars(Driver) /\ WF_sdVars(CardGoesOn)

-----------------------------------------------------------------------------
InCall(s) == s \in xfer.addr .. xfer.addr + xfer.good - 1

\* A call that writes has written a prefix of its sectors, each to its own place,
\* and nothing else; one that reads has placed a prefix of them in its buffer.
\* When it succeeds the prefix is all of them, or all but the last: then the last
\* failed with an error that came too late for the driver's look, and that
\* SDI_CheckDATend found and did not report.
\* After SDI_init has succeeded, and after each call that succeeds or moves one
\* sector only, the card is selected under the address that the driver knows,
\* four bits wide, and not in the middle of a transfer.
TransfersExact ==
  /\ \A s \in DOMAIN sectors :
       sectors[s] = IF xfer.write /\ InCall(s) THEN buffer[s - xfer.addr + 1] ELSE initial[s]
  /\ ~xfer.write => /\ Len(buffer) = xfer.moved
                    /\ \A k \in 1 .. xfer.good : buffer[k] = sectors[xfer.addr + k - 1]
  /\ sdpc = "done" => xfer.moved = xfer.count /\ xfer.good >= xfer.count - 1
  /\ sdpc = "ready" /\ (sdret = 1 \/ (calls < MaxTransfers /\ xfer.count = 1)) =>
       /\ card.state \in {"tran", "prg"}
       /\ card.wide /\ SDCard.iCardRCA = card.rca

\* The command that the driver repeats for ever: the card has obeyed it and its
\* answer was lost, or the last transfer of several sectors has failed.
Stranded == \/ sdpc = "start" /\ (card.state = "rcv" \/ (card.state = "data" /\ card.multi))
            \/ sdpc = "stop" /\ card.state \notin {"data", "rcv"}

\* Every call returns, SDI_init with any card or none, unless it is stranded.
SdReturns == (sdpc \notin {"boot", "ready"}) ~> (sdpc = "ready" \/ Stranded)
=============================================================================
