------------------------------------- MODULE Nes ------------------------------------
(***************************************************************************)
(* The NES adapter (nes.py): its probe and its identification each read    *)
(* the header, ask for the size of the file and, the latter, hash a range, *)
(* opening the path anew every time; the detector reads the header alone.  *)
(* Sizes are bytes.                                                        *)
(***************************************************************************)
EXTENDS Naturals

CONSTANT Cartridges  \* what the path may hold: records of the type IsCartridge

NesHeaderSize == 16
Escape == 15  \* the nibble that announces an exponent and a multiplier

\* "magic" and "trainer", "nes2" and the size fields are what the header says, as far as
\* the file is long enough to have one.
IsCartridge(c) ==
  /\ c.regular \in BOOLEAN /\ c.length \in Nat
  /\ c.magic \in BOOLEAN /\ c.trainer \in BOOLEAN /\ c.nes2 \in BOOLEAN
  /\ {c.prgLsb, c.chrLsb} \subseteq 0..255 /\ {c.prgMsb, c.chrMsb} \subseteq 0..15

ASSUME CartridgeAssumption == \A c \in Cartridges : IsCartridge(c)

VARIABLES
  cartridge,  \* what the path holds
  headerless, \* allow_headerless
  suffix,     \* whether the path ends in ".nes"
  nesMethod,  \* the method that runs, or "none"
  nesStep,    \* its next step: see NesSteps
  said,       \* the header it has read: the cartridge it was read from
  statSize,   \* the size it was told
  hashed,     \* the range it has hashed
  nesOutcome, \* how the last method ended
  stable,     \* whether the path has held the same since the method began
  nesClaims   \* what was said of the present file

nesVars == <<cartridge, headerless, suffix, nesMethod, nesStep, said, statSize, hashed,
             nesOutcome, stable, nesClaims>>

NesMethods == {"probe", "identify", "detect"}
NesSteps == {"idle", "header", "size", "hash"}

NesStart ==
  /\ nesMethod = "none" /\ nesStep = "idle" /\ said = cartridge
  /\ statSize = 0 /\ hashed = [offset |-> 0, length |-> 0]
  /\ nesOutcome = "none" /\ stable = TRUE /\ nesClaims = {}

NesInit ==
  cartridge \in Cartridges /\ headerless \in BOOLEAN /\ suffix \in BOOLEAN /\ NesStart

-----------------------------------------------------------------------------
\* _nes2_rom_size.
RomSize(lsb, msb, unit) ==
  IF msb = Escape THEN 2 ^ (lsb \div 4) * ((lsb % 4) * 2 + 1)
                  ELSE (msb * 256 + lsb) * unit

\* An iNES header has no high nibbles.
ContentSize(c) ==
  IF c.nes2 THEN RomSize(c.prgLsb, c.prgMsb, 16384) + RomSize(c.chrLsb, c.chrMsb, 8192)
            ELSE c.prgLsb * 16384 + c.chrLsb * 8192

HasMagic(c) == c.magic /\ c.length >= 4
Representation(c) ==
  IF ~HasMagic(c) THEN "headerless" ELSE IF c.nes2 THEN "nes2" ELSE "ines"

\* The method ends; what it says is remembered when it is about the present file.
NesEnd(what, c) ==
  /\ nesMethod' = "none" /\ nesStep' = "idle" /\ nesOutcome' = what
  /\ nesClaims' = IF stable THEN nesClaims \cup {<<what, Representation(c)>>} ELSE nesClaims

\* is_file: without one, an answer at once.
NesBegin ==
  /\ nesMethod = "none" /\ \E m \in NesMethods :
       IF cartridge.regular
         THEN nesMethod' = m /\ nesStep' = "header" /\ nesOutcome' = "none"
         ELSE /\ nesOutcome' = IF m = "probe" THEN "unsupported"
                               ELSE IF m = "identify" THEN "format_error" ELSE "nothing"
              /\ UNCHANGED <<nesMethod, nesStep>>
  /\ said' = cartridge /\ stable' = TRUE
  /\ statSize' = 0 /\ hashed' = [offset |-> 0, length |-> 0]
  /\ UNCHANGED <<cartridge, headerless, suffix, nesClaims>>

\* What each method concludes from the header alone, or "size" when the size has to be
\* known.  Only the probe asks for the suffix of a file without header.
FromHeaderOfProbe(c) ==
  IF ~HasMagic(c) THEN IF headerless /\ suffix THEN "supported" ELSE "unsupported"
  ELSE IF c.length < NesHeaderSize \/ c.trainer THEN "unsafe" ELSE "size"

\* Wrong on purpose: identify takes the trainer for a part of the content.
FromHeaderWithTrainer(c) ==
  IF ~HasMagic(c) THEN IF headerless THEN "size" ELSE "format_error"
  ELSE IF c.length < NesHeaderSize THEN "format_error" ELSE "size"

FromHeaderOfIdentify(c) ==
  IF ~HasMagic(c) THEN IF headerless THEN "size" ELSE "format_error"
  ELSE IF c.length < NesHeaderSize \/ c.trainer THEN "format_error" ELSE "size"

FromHeaderOfDetect(c) ==
  IF HasMagic(c) /\ c.length >= NesHeaderSize THEN "candidate" ELSE "nothing"

FromHeader(m, c) ==
  CASE m = "probe" -> FromHeaderOfProbe(c)
    [] m = "identify" -> FromHeaderOfIdentify(c)
    [] m = "detect" -> FromHeaderOfDetect(c)

ReadHeader ==
  /\ nesStep = "header"
  /\ said' = cartridge
  /\ IF ~cartridge.regular THEN NesEnd("os_error", cartridge)
     ELSE IF FromHeader(nesMethod, cartridge) = "size"
       THEN nesStep' = "size" /\ UNCHANGED <<nesMethod, nesOutcome, nesClaims>>
       ELSE NesEnd(FromHeader(nesMethod, cartridge), cartridge)
  /\ UNCHANGED <<cartridge, headerless, suffix, statSize, hashed, stable>>

SizeFits(size) == ~HasMagic(said) \/ size = NesHeaderSize + ContentSize(said)

AskSize ==
  /\ nesStep = "size"
  /\ IF ~cartridge.regular THEN NesEnd("os_error", said) /\ UNCHANGED statSize
     ELSE /\ statSize' = cartridge.length
          /\ IF ~SizeFits(cartridge.length)
               THEN NesEnd(IF nesMethod = "probe" THEN "unsafe" ELSE "format_error", said)
             ELSE IF nesMethod = "probe" THEN NesEnd("supported", said)
             ELSE nesStep' = "hash" /\ UNCHANGED <<nesMethod, nesOutcome, nesClaims>>
  /\ UNCHANGED <<cartridge, headerless, suffix, said, hashed, stable>>

HashRange ==
  IF HasMagic(said) THEN [offset |-> NesHeaderSize, length |-> ContentSize(said)]
                    ELSE [offset |-> 0, length |-> statSize]

\* Wrong on purpose: whatever is left of the file is hashed.
HashShort ==
  /\ nesStep = "hash"
  /\ hashed' = [HashRange EXCEPT !.length =
       IF HashRange.offset + @ <= cartridge.length THEN @
       ELSE IF HashRange.offset <= cartridge.length THEN cartridge.length - HashRange.offset
       ELSE 0]
  /\ IF cartridge.regular THEN NesEnd("identified", said) ELSE NesEnd("os_error", said)
  /\ UNCHANGED <<cartridge, headerless, suffix, said, statSize, stable>>

\* _hash_region: exactly the range or none of it; an empty range needs no byte.
Hash ==
  /\ nesStep = "hash"
  /\ IF ~cartridge.regular THEN NesEnd("os_error", said) /\ UNCHANGED hashed
     ELSE IF \/ HashRange.length = 0
             \/ HashRange.offset + HashRange.length <= cartridge.length
       THEN NesEnd("identified", said) /\ hashed' = HashRange
       ELSE NesEnd("format_error", said) /\ UNCHANGED hashed
  /\ UNCHANGED <<cartridge, headerless, suffix, said, statSize, stable>>

\* Another program writes another file to the path (not under src/): during a method,
\* for between two of them it only makes the fresh start that NesInit is.
Swap ==
  /\ nesMethod # "none"
  /\ cartridge' \in Cartridges \ {cartridge}
  /\ stable' = FALSE /\ nesClaims' = {}
  /\ UNCHANGED <<headerless, suffix, nesMethod, nesStep, said, statSize, hashed, nesOutcome>>

NesStep == ReadHeader \/ AskSize \/ Hash
NesNext == NesBegin \/ NesStep \/ Swap
NesSpec == NesInit /\ [][NesNext]_nesVars

-----------------------------------------------------------------------------
NesOutcomes == {"none", "supported", "unsupported", "unsafe", "identified", "format_error",
                "candidate", "nothing", "os_error"}

NesTypeOK ==
  /\ IsCartridge(cartridge) /\ IsCartridge(said) /\ headerless \in BOOLEAN /\ suffix \in BOOLEAN
  /\ nesMethod \in NesMethods \cup {"none"} /\ nesStep \in NesSteps
  /\ statSize \in Nat /\ hashed \in [offset : Nat, length : Nat]
  /\ nesOutcome \in NesOutcomes /\ stable \in BOOLEAN
  /\ nesClaims \subseteq NesOutcomes \X {"headerless", "ines", "nes2"}

\* The three methods have code of their own and open the file each for itself, and yet
\* they agree about a file that does not change: what the probe accepts is identified,
\* what it finds unsafe is not, and what is identified from a header is detected too.
NesAgrees ==
  \A one, other \in nesClaims :
    /\ one[1] = "supported" => other[1] \notin {"unsupported", "unsafe", "format_error"}
    /\ one[1] = "unsafe" => other[1] # "identified"
    /\ one[1] \in {"supported", "identified"} /\ one[2] # "headerless" => other[1] # "nothing"

\* An identity is that of the whole content, and of nothing else: of a file that does
\* not change meanwhile, everything but its header; of one that does, still as many
\* bytes as the header promised.
HashIsExact ==
  nesOutcome = "identified" =>
    /\ HasMagic(said) => hashed.length = ContentSize(said) /\ hashed.offset = NesHeaderSize
    /\ hashed.offset + hashed.length = statSize
    /\ stable => statSize = cartridge.length
=====================================================================================
