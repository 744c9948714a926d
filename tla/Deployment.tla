------------------------------ MODULE Deployment ------------------------------
(* The deployment scripts: deploy-full.ts with the scripts it starts            *)
(* (initialize-protocol, initialize-staking-epoch, initialize-fee-receiver,     *)
(* fund-treasury), the record they keep in deployments/<network>-latest.json    *)
(* (deployment-store.ts), and what an operator runs by hand in between          *)
(* (whitelist-token, fix-deployment-config, close-current-deployment).          *)
(*                                                                              *)
(* A program id is a number, 0 stands for none.  The id is in five places: the  *)
(* keypair, lib.rs (anchor keys sync), the files updateProgramId rewrites, the  *)
(* built IDL, to whose program every transaction goes, and the .env files; and  *)
(* in the record, whose addresses the scripts derive.  One script runs at a     *)
(* time; any may stop at any step, and deploy-full goes on when a child fails.  *)
EXTENDS Integers, FiniteSets

CONSTANTS Token,
          Options,       \* what runs may be asked for, each a set of parts: not
                         \* the protocol with --skip-init, staking only with
                         \* --staking-token, no treasury with --no-fund
          MaxPrograms,   \* bound on the keypairs generated
          MaxMishaps     \* bound on the steps that fail or are interrupted

Protocol == "protocol"
Staking == "staking"
FeeReceiver == "feeReceiver"
Treasury == "treasury"
Part == {Protocol, Staking, FeeReceiver, Treasury}
Program == 1 .. MaxPrograms

(* What of a run's parts the program accepts on a new id.                                 *)
Possible(parts) == IF Protocol \in parts THEN parts ELSE parts \ {FeeReceiver, Treasury}

VARIABLES ids,      \* keypairs generated so far
          file,     \* file[f]: the id found in each place
          chain,    \* chain[id]: "none", "up" or "closed", parts initialised, tokens listed
          record,   \* deployments/<network>-latest.json
          run,      \* the run of deploy-full
          child,    \* the script that runs, started by deploy-full or by hand
          mishaps

vars == <<ids, file, chain, record, run, child, mishaps>>

NoRecord == [exists |-> FALSE, id |-> 0, done |-> {}, tokens |-> {}]
NoRun == [step |-> "idle", old |-> 0, clean |-> FALSE, parts |-> {}]
NoChild == [part |-> "none", step |-> "idle"]

Init ==
  /\ ids = 0
  /\ file = [f \in {"keypair", "lib", "texts", "idl", "env"} |-> 0]
  /\ chain = [p \in Program |-> [state |-> "none", done |-> {}, tokens |-> {}]]
  /\ record = NoRecord
  /\ run = NoRun /\ child = NoChild
  /\ mishaps = 0

New == file["keypair"]
At(step) == run.step = step /\ child.step = "idle"
Goto(step) == run' = [run EXCEPT !.step = step]
Quiet == run.step = "idle" /\ child.step = "idle"

Mishap == mishaps < MaxMishaps /\ mishaps' = mishaps + 1

-------------------------------------------------------------------------------
(* deploy-full, step by step. *)

(* Steps 1 and 2: the id of the keypair there is; unless the keypair is kept,   *)
(* its program is closed, but not on mainnet, and a failure to close it is       *)
(* ignored.                                                                     *)
BeginFresh(parts) ==
  /\ Quiet /\ ids < MaxPrograms
  /\ run' = [step |-> "keygen", old |-> New, clean |-> TRUE, parts |-> parts]
  /\ \/ /\ New # 0 /\ chain[New].state = "up"
        /\ chain' = [chain EXCEPT ![New].state = "closed"]
     \/ UNCHANGED chain
  /\ UNCHANGED <<ids, file, record, child, mishaps>>

(* --skip-keygen, of a keypair that is there. *)
BeginKept(parts) ==
  /\ Quiet /\ New # 0
  /\ run' = [step |-> "sync", old |-> New, clean |-> FALSE, parts |-> parts]
  /\ UNCHANGED <<ids, file, chain, record, child, mishaps>>

(* Step 3: solana-keygen --force. *)
Keygen ==
  /\ At("keygen")
  /\ ids' = ids + 1
  /\ file' = [file EXCEPT !["keypair"] = ids + 1]
  /\ Goto("sync")
  /\ UNCHANGED <<chain, record, child, mishaps>>

(* Step 4: anchor keys sync writes the keypair's id into lib.rs. *)
SyncKeys ==
  /\ At("sync")
  /\ file' = [file EXCEPT !["lib"] = New]
  /\ Goto("texts")
  /\ UNCHANGED <<ids, chain, record, child, mishaps>>

(* Step 5: updateProgramId replaces the old id, or the placeholder, where it is *)
(* found; it is called only if there was an old id and it changed.              *)
UpdateTexts ==
  /\ At("texts")
  /\ file' = IF run.old \notin {0, New} /\ file["texts"] \in {run.old, 0}
               THEN [file EXCEPT !["texts"] = New] ELSE file
  /\ Goto("build")
  /\ UNCHANGED <<ids, chain, record, child, mishaps>>

(* Steps 6 and 7: the IDL carries the id of lib.rs. *)
Build ==
  /\ At("build")
  /\ file' = [file EXCEPT !["idl"] = file["lib"]]
  /\ Goto("deploy")
  /\ UNCHANGED <<ids, chain, record, child, mishaps>>

(* Step 8: a program can be deployed or upgraded, but a closed id is spent and  *)
(* the script ends.                                                             *)
DeployProgram ==
  /\ At("deploy")
  /\ IF chain[New].state = "closed"
       THEN run' = NoRun /\ UNCHANGED chain
       ELSE chain' = [chain EXCEPT ![New].state = "up"] /\ Goto("record")
  /\ UNCHANGED <<ids, file, record, child, mishaps>>

(* Fault: a record that is there is kept, whatever program it is of. *)
SaveRecordIfNone ==
  /\ At("record")
  /\ record' = IF record.exists THEN record ELSE [NoRecord EXCEPT !.exists = TRUE, !.id = New]
  /\ Goto(Protocol)
  /\ UNCHANGED <<ids, file, chain, child, mishaps>>

(* Step 9.5: a record of another program is replaced, one of this program kept; *)
(* a failure to write it is ignored.                                            *)
SaveRecord ==
  /\ At("record")
  /\ \/ /\ record' = IF record.exists /\ record.id = New THEN record
                     ELSE [NoRecord EXCEPT !.exists = TRUE, !.id = New]
        /\ Goto(Protocol)
        /\ UNCHANGED mishaps
     \/ Mishap /\ record' = record /\ run' = [run EXCEPT !.step = Protocol, !.clean = FALSE]
  /\ UNCHANGED <<ids, file, chain, child>>

After(part) == CASE part = Protocol -> Staking [] part = Staking -> FeeReceiver
                 [] part = FeeReceiver -> Treasury [] part = Treasury -> "end"

(* Steps 10, 11, 12 and 14: each is a script of its own, waited for, if the run  *)
(* is asked for it.                                                             *)
StartChild(part) ==
  /\ At(part)
  /\ Goto(After(part))
  /\ child' = IF part \in run.parts THEN [part |-> part, step |-> "send"] ELSE NoChild
  /\ UNCHANGED <<ids, file, chain, record, mishaps>>

(* Step 15 merges metadata into the record, which makes one if there is none,   *)
(* and step 16 writes the id into the .env files.                               *)
EndRun ==
  /\ At("end")
  /\ record' = [record EXCEPT !.exists = TRUE]
  /\ file' = [file EXCEPT !["env"] = New]
  /\ run' = [run EXCEPT !.step = "done"]
  /\ UNCHANGED <<ids, chain, child, mishaps>>

Leave ==
  /\ At("done") /\ run' = NoRun
  /\ UNCHANGED <<ids, file, chain, record, child, mishaps>>

-------------------------------------------------------------------------------
(* The scripts. *)

(* By hand: any of them, for which the id must be found somewhere. *)
RunByHand(part) ==
  /\ Quiet /\ (record.id # 0 \/ file["lib"] # 0) /\ file["idl"] # 0
  /\ child' = [part |-> part, step |-> "send"]
  /\ UNCHANGED <<ids, file, chain, record, run, mishaps>>

(* What the program accepts: each part once, the treasury any number of times;   *)
(* the fee receiver's script reads the protocol state first.                     *)
Accepts(p, part) ==
  /\ p # 0 /\ chain[p].state = "up"
  /\ part \in {FeeReceiver, Treasury} => Protocol \in chain[p].done
  /\ part # Treasury => part \notin chain[p].done

(* The transaction goes to the program of the IDL.  A script that fails, here or *)
(* before it has written the record, is not noticed by deploy-full.              *)
Send ==
  /\ child.step = "send"
  /\ IF Accepts(file["idl"], child.part)
       THEN /\ chain' = [chain EXCEPT ![file["idl"]].done = @ \cup {child.part}]
            /\ child' = [child EXCEPT !.step = "record"]
       ELSE child' = NoChild /\ UNCHANGED chain
  /\ UNCHANGED <<ids, file, record, run, mishaps>>

(* updateDeployment: merged into the record, whatever program that is of. *)
RecordPart ==
  /\ child.step = "record"
  /\ record' = [record EXCEPT !.exists = TRUE, !.done = @ \cup {child.part}]
  /\ child' = NoChild
  /\ UNCHANGED <<ids, file, chain, run, mishaps>>

ChildFails ==
  /\ child.step # "idle" /\ Mishap
  /\ child' = NoChild
  /\ run' = [run EXCEPT !.clean = FALSE]
  /\ UNCHANGED <<ids, file, chain, record>>

(* The run is interrupted, or a command of it fails: everything stays as it is. *)
Interrupted ==
  /\ run.step \notin {"idle", "done"} /\ Mishap
  /\ run' = NoRun /\ child' = NoChild
  /\ UNCHANGED <<ids, file, chain, record>>

(* whitelist-token: the list it merges replaces the list that is there. *)
Whitelist(t) ==
  /\ Quiet /\ Accepts(file["idl"], Treasury)
  /\ t \notin chain[file["idl"]].tokens
  /\ chain' = [chain EXCEPT ![file["idl"]].tokens = @ \cup {t}]
  /\ \/ record' = [record EXCEPT !.exists = TRUE, !.tokens = {t}] /\ UNCHANGED mishaps
     \/ record' = record /\ Mishap
  /\ UNCHANGED <<ids, file, run, child>>

(* fix-deployment-config: the record is rebuilt from the chain for the id of     *)
(* lib.rs; the tokens are those it had.                                          *)
Fix ==
  /\ Quiet /\ file["lib"] # 0
  /\ record' = [record EXCEPT !.exists = TRUE, !.id = file["lib"], !.done = chain[file["lib"]].done]
  /\ UNCHANGED <<ids, file, chain, run, child, mishaps>>

(* close-current-deployment: the withdrawal of the whole treasury and the drain  *)
(* of an unpaused pool are refused, which it ignores; it moves the record away.  *)
Close ==
  /\ Quiet /\ record.exists
  /\ record' = NoRecord
  /\ UNCHANGED <<ids, file, chain, run, child, mishaps>>

-------------------------------------------------------------------------------

Next ==
  \/ \E parts \in Options : BeginFresh(parts) \/ BeginKept(parts)
  \/ Keygen \/ SyncKeys \/ UpdateTexts \/ Build
  \/ DeployProgram \/ SaveRecord \/ EndRun \/ Leave
  \/ \E part \in Part : StartChild(part) \/ RunByHand(part)
  \/ Send \/ RecordPart \/ ChildFails \/ Interrupted
  \/ \E t \in Token : Whitelist(t)
  \/ Fix \/ Close

Spec == Init /\ [][Next]_vars

-------------------------------------------------------------------------------

(* A run with a new keypair in which nothing fails ends with the program up and  *)
(* initialised in exactly the parts the run was asked for, as far as the program *)
(* accepts them (none without the protocol but the staking pool), recorded under *)
(* its own id and named in the .env files, whatever the runs and scripts before  *)
(* it left half done (deploy-full.ts:249-456).                                   *)
FreshRunIsComplete ==
  run.step = "done" /\ run.clean =>
    /\ chain[New].state = "up" /\ chain[New].done = Possible(run.parts)
    /\ record.id = New /\ record.done = Possible(run.parts) /\ record.tokens = {}
    /\ file["env"] = New /\ file["lib"] = New /\ file["idl"] = New
===============================================================================
