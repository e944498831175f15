-------------------------------- MODULE Options --------------------------------
(***************************************************************************)
(* The option map (ucioption.cpp), and behind one of its options the file  *)
(* of the network: loading, verifying and exporting it (nnue/network.cpp,  *)
(* engine.cpp).  A name or value is a record of what the code tells apart  *)
(* in its text; a file is the sections of a network that can be read.      *)
(***************************************************************************)
EXTENDS Integers, Sequences, FiniteSets

CONSTANTS Registry, \* options by name in lower case: [type, default, min, max, choices]
          Names,    \* [folded]: names as they are sent, in any case
          Texts,    \* values as they are sent: [text, folded, n, whole]; n may be NoNumber
          Paths,    \* values of EvalFile; "" is the default
          Default,  \* the name of the default network
          Disks,    \* files by place and name: [head, sections, tail]; the
                    \* place "exe" has what is embedded in the program
          Sections, \* 1 + LayerStacks
          MaxSteps  \* bounds a behaviour

VARIABLES job, out

NoNumber == -99999
Nothing == [s \in 1..Sections |-> "zero"]
File(sections) == [head |-> TRUE, sections |-> sections, tail |-> FALSE]

-------------------------------------------------------------------------------
(* Option::operator=: which values an option takes.  strtoll reads a       *)
(* number up to the end of the text.                                       *)
ValueInRange(v, low, high) == v.n # NoNumber /\ v.whole /\ v.n \in low..high
Accepts(o, v) ==
    /\ o.type \notin {"button", "string"} => v.text # ""
    /\ o.type = "check" => v.text \in {"true", "false"}
    /\ o.type = "spin" => ValueInRange(v, o.min, o.max)
    /\ o.type = "combo" => v.folded \in o.choices /\ v.text # "var"
Stored(o, old, v) ==
    IF o.type = "button" THEN old
    ELSE IF o.type = "string" /\ v.text = "<empty>" THEN [v EXCEPT !.text = "", !.folded = ""] ELSE v

-------------------------------------------------------------------------------
(* Network::load of one stream: sections are read in place, one by one,    *)
(* until one has a wrong header or ends too early.                         *)
Cut == "cut"
Wrong == "wrong"
ReadInto(net, file) ==
    LET sound(s) == s <= Len(file.sections) /\ file.sections[s] \notin {Cut, Wrong}
        upTo == CHOOSE n \in 0..Sections : (\A s \in 1..n : sound(s)) /\ (n < Sections => ~sound(n + 1))
        torn == upTo < Len(file.sections) /\ upTo < Sections /\ file.sections[upTo + 1] = Cut
    IN  IF ~file.head THEN [net |-> net, ok |-> FALSE]
        ELSE [net |-> [s \in 1..Sections |->
                          IF s <= upTo THEN file.sections[s] ELSE IF s = upTo + 1 /\ torn THEN Cut ELSE net[s]],
              ok |-> upTo = Sections /\ Len(file.sections) = Sections /\ ~file.tail]

(* whole: what the last file that was read to its end had.                 *)
Read(j, file, name) ==
    LET r == ReadInto(j.net, file) IN
    [j EXCEPT !.net = r.net, !.current = IF r.ok THEN name ELSE @,
              !.whole = IF r.ok THEN r.net ELSE @, !.broken = ~r.ok /\ (@ \/ r.net # j.net)]
LoadInternal(j) == Read(j, j.disk[<<"exe", Default>>], Default)
(* The working directory, then that of the program. *)
LoadExternal(j, dir, name) ==
    IF j.current = name THEN j
    ELSE IF <<dir, name>> \notin DOMAIN j.disk THEN j ELSE Read(j, j.disk[<<dir, name>>], name)
Load(j, path) ==
    LET name == IF path = "" THEN Default ELSE path
        inside == IF j.current # name /\ name = Default THEN LoadInternal(j) ELSE j
    IN  LoadExternal(LoadExternal(inside, "cwd", name), "bin", name)

OptInit ==
    /\ \E d \in Disks :
        job = Load([values |-> [o \in DOMAIN Registry |-> Registry[o].default], told |-> [o \in DOMAIN Registry |-> Registry[o].default],
                    presses |-> 0, calls |-> 0, path |-> Default, disk |-> d, net |-> Nothing, whole |-> Nothing,
                    current |-> "none", broken |-> FALSE, exported |-> {}, alive |-> TRUE, steps |-> 0], "")
    /\ out = "set"
Goes(j) == job' = [j EXCEPT !.steps = @ + 1]

(* OptionsMap::setoption; on_change is called with every value taken.      *)
SetOption(name, v) ==
    LET known == name.folded \in DOMAIN Registry
        o == Registry[name.folded]
        stored == Stored(o, job.values[name.folded], v)
    IN  /\ Goes(IF ~(known /\ Accepts(o, v)) THEN job
                ELSE [job EXCEPT !.values[name.folded] = stored, !.told[name.folded] = stored,
                                 !.presses = IF o.type = "button" THEN @ + 1 ELSE @])
        /\ out' = IF ~known THEN "No such option" ELSE IF Accepts(o, v) THEN "set" ELSE "kept"
SetEvalFile(path) ==
    /\ Goes(Load([job EXCEPT !.path = path], path))
    /\ out' = "loaded"

(* Engine::verify_network, before every search. *)
Wanted == IF job.path = "" THEN Default ELSE job.path
Verify ==
    /\ Goes([job EXCEPT !.alive = job.current = Wanted])
    /\ out' = IF job.current = Wanted THEN "search" ELSE "exit"

(* "export_net", with a file name or without; the disk may be full.        *)
Export(name, full) ==
    LET target == IF name = "" THEN Default ELSE name
        refused == job.current = "none" \/ (name = "" /\ job.current # Default)
        written == IF full THEN File(SubSeq(job.net, 1, 1) \o <<Cut>>) ELSE File(job.net)
    IN  /\ Goes(IF refused THEN job
                ELSE [job EXCEPT !.disk = [f \in DOMAIN @ \cup {<<"cwd", target>>} |->
                                              IF f = <<"cwd", target>> THEN written ELSE @[f]],
                                 !.exported = (@ \ {[name |-> target, net |-> n] : n \in {e.net : e \in @}})
                                              \cup IF full THEN {} ELSE {[name |-> target, net |-> job.net]}])
        /\ out' = "exported"

OptNext ==
    /\ job.alive /\ job.steps < MaxSteps
    /\ \/ \E name \in Names, v \in Texts : SetOption(name, v)
       \/ \E path \in Paths : SetEvalFile(path)
       \/ \E name \in Paths, full \in BOOLEAN : Export(name, full)
       \/ Verify

-------------------------------------------------------------------------------
(* Whatever is sent, every option can be read as its type says, and who is *)
(* called back has seen the value that is in force.                        *)
OptionsReadable ==
    /\ DOMAIN job.values = DOMAIN Registry
    /\ \A o \in DOMAIN Registry :
        LET v == job.values[o]
            r == Registry[o]
        IN  /\ r.type = "spin" => v.whole /\ v.n \in r.min..r.max
            /\ r.type = "check" => v.text \in {"true", "false"}
            /\ r.type = "combo" => v.folded \in r.choices
            /\ job.told[o] = v

(* A search runs with the network that was asked for, read to its end; or  *)
(* a later file broke off while it was read over it: the network is then   *)
(* in parts that do not belong together, and passes the test.              *)
NetworkWhole ==
    /\ out = "search" => job.current = Wanted /\ (job.broken \/ job.net = job.whole)
    /\ job.net # job.whole => job.broken
    /\ job.current = "none" => out # "search"
(* What was exported is read back as it was. *)
ExportsRead ==
    \A e \in job.exported :
        LET r == ReadInto(Nothing, job.disk[<<"cwd", e.name>>]) IN
        (\A s \in 1..Sections : e.net[s] # Cut) => r.ok /\ r.net = e.net

OptionsSound == OptionsReadable /\ NetworkWhole /\ ExportsRead
================================================================================
