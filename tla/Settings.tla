------------------------------- MODULE Settings -------------------------------
(***************************************************************************)
(* load_minter_settings in src/src/env/mod.rs, with the prompts of          *)
(* src/src/env/input.rs it calls.                                           *)
(*                                                                         *)
(* settings.json is absent, unparseable ("garbage": an empty or truncated   *)
(* file), or JSON of the fields that matter here: whether the RPC URL is   *)
(* set, whether the four keys the user must type are set, and the LUT key  *)
(* (0 when empty).  A missing file is first created with defaults;     *)
(* the string read is then "" in that case, so it parses as nothing and    *)
(* HelperSettings::default() (every field empty) is used, exactly as for a *)
(* garbage file.  The user is prompted for the missing keys and the file   *)
(* is rewritten: File::create truncates it before write_all writes it.     *)
(***************************************************************************)
EXTENDS Naturals

CONSTANTS
    LutKeys    \* the LUT keys the file may hold, 0 standing for ""

VARIABLES
    sPc,       \* step of load_minter_settings: idle, read, prompt, save, done, dead
    file,      \* settings.json
    helper     \* helper_settings, the value returned as PoolDataSettings

settingsVars == <<sPc, file, helper>>

Record(rpc, keys, lut) == [rpc |-> rpc, keys |-> keys, lut |-> lut]

Records == [rpc : BOOLEAN, keys : BOOLEAN, lut : {0} \cup LutKeys]

(* settings.json: its kind, and the settings it holds when it is JSON *)
FileOf(h) == [kind |-> "json", rpc |-> h.rpc, keys |-> h.keys, lut |-> h.lut]
AbsentFile == [kind |-> "absent", rpc |-> FALSE, keys |-> FALSE, lut |-> 0]
GarbageFile == [kind |-> "garbage", rpc |-> FALSE, keys |-> FALSE, lut |-> 0]

Files == [kind : {"absent", "garbage", "json"}, rpc : BOOLEAN, keys : BOOLEAN,
          lut : {0} \cup LutKeys]

(* the file written when none exists: the RPC and block-engine URLs set *)
CreatedDefaults == Record(TRUE, FALSE, 0)

(* HelperSettings::default(): every field the empty string *)
EmptyHelper == Record(FALSE, FALSE, 0)

(* the files the program can meet at start: none, a broken one, or one    *)
(* written by an earlier start, before or after the keys were typed       *)
InitialFiles == {AbsentFile, GarbageFile, FileOf(CreatedDefaults), FileOf(Record(TRUE, TRUE, 0))}

SettingsInit ==
    /\ sPc = "idle"
    /\ file \in InitialFiles
    /\ helper = EmptyHelper

(* a mode calls load_minter_settings (after a crash, in a new process) *)
Begin ==
    /\ sPc \in {"idle", "done", "dead"}
    /\ sPc' = "read"
    /\ UNCHANGED <<file, helper>>

(* variant: the LUT-KEY field is not read back *)
ParsedDropped(f) == IF f.kind = "json" THEN Record(f.rpc, f.keys, 0) ELSE EmptyHelper

(* serde_json::from_str of the string read: the record of a well-formed   *)
(* file, HelperSettings::default() for "" or garbage                      *)
Parsed(f) == IF f.kind = "json" THEN Record(f.rpc, f.keys, f.lut) ELSE EmptyHelper

(* read_to_string; on an error the defaults are written and "" is parsed *)
Read ==
    /\ sPc = "read"
    /\ file' = IF file.kind = "absent" THEN FileOf(CreatedDefaults) ELSE file
    /\ helper' = Parsed(file)
    /\ sPc' = "prompt"

(* the prompts for the empty keys loop until a valid key is typed *)
Prompt ==
    /\ sPc = "prompt"
    /\ helper' = [helper EXCEPT !.keys = TRUE]
    /\ sPc' = "save"
    /\ UNCHANGED file

(* the user interrupts a prompt: t.run().expect panics and the process    *)
(* ends                                                                   *)
Quit ==
    /\ sPc = "prompt"
    /\ ~helper.keys
    /\ sPc' = "dead"
    /\ UNCHANGED <<file, helper>>

(* File::create and write_all of the updated settings *)
Save ==
    /\ sPc = "save"
    /\ file' = FileOf(helper)
    /\ sPc' = "done"
    /\ UNCHANGED helper

(* the process dies between the truncation and the write (a kill, or the  *)
(* unwrap of a failed write): the file is left empty                      *)
SaveInterrupted ==
    /\ sPc = "save"
    /\ file' = GarbageFile
    /\ sPc' = "dead"
    /\ UNCHANGED helper

SettingsStep == Read \/ Prompt \/ Quit \/ Save \/ SaveInterrupted

(* the settings load_minter_settings returned to its caller *)
Loaded == helper
====
