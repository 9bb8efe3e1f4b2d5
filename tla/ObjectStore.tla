------------------------------ MODULE ObjectStore ------------------------------
(***************************************************************************)
(* What the storage server promises its clients: one content under each    *)
(* name, changed by an upload or a deletion as a whole and by nothing      *)
(* else, and every request answered from what is stored at one moment.     *)
(*                                                                         *)
(* A request is taken, has its effect if it is to have one, and is         *)
(* answered.  It may carry more than the op, name, body and type that are  *)
(* looked at here.                                                         *)
(***************************************************************************)
EXTENDS Sequences

CONSTANTS Names, Contents

VARIABLES
    store,      \* the content under each name, or "none"
    request,    \* the request that is being handled
    stage,      \* how far it has come: "none" when there is none, "taken", "applied"
    replies     \* what the last request was answered

vars == <<store, request, stage, replies>>

NoRequest == [op |-> "none"]
Reply(code, body) == [code |-> code, body |-> body]

Init == /\ store = [n \in Names |-> "none"]
        /\ request = NoRequest
        /\ stage = "none"
        /\ replies = <<>>

Take == /\ stage = "none"
        /\ stage' = "taken"
        /\ request'.op \in {"upload", "delete", "download", "list", "other"}
        /\ replies' = <<>>
        /\ UNCHANGED store

Taken(op) == stage = "taken" /\ request.op = op

Ends(answer) == /\ stage' = "none"
                /\ request' = NoRequest
                /\ replies' = answer

\* A header that is needed was not sent: nothing is done, and nothing answered.
Breaks == /\ \/ Taken("upload") /\ request.body \in Contents
             \/ Taken("delete")
          /\ request.name = "missing" \/ (request.op = "upload" /\ request.type = "missing")
          /\ Ends(<<>>)
          /\ UNCHANGED store

Refuse == /\ Taken("upload")
          /\ \/ request.body \notin Contents
             \/ request.name \in Names /\ request.type = "other"
          /\ Ends(<<Reply("400", "none")>>)
          /\ UNCHANGED store

Put == /\ Taken("upload")
       /\ request.name \in Names /\ request.body \in Contents
       /\ request.type \in {"low", "deep"}
       /\ store' = [store EXCEPT ![request.name] = request.body]
       /\ stage' = "applied"
       /\ UNCHANGED <<request, replies>>

Remove == /\ Taken("delete") /\ request.name \in Names
          /\ store[request.name] # "none"
          /\ store' = [store EXCEPT ![request.name] = "none"]
          /\ stage' = "applied"
          /\ UNCHANGED <<request, replies>>

RefuseRemoval == /\ Taken("delete") /\ request.name = "empty"
                 /\ Ends(<<Reply("400", "none")>>)
                 /\ UNCHANGED store

RemoveUnknown == /\ Taken("delete") /\ request.name \in Names
                 /\ store[request.name] = "none"
                 /\ Ends(<<Reply("404", "none")>>)
                 /\ UNCHANGED store

Done == /\ stage = "applied"
        /\ Ends(<<Reply("200", "none")>>)
        /\ UNCHANGED store

\* A download that is resumed is answered 206.
Get == /\ Taken("download")
       /\ store[request.name] # "none"
       /\ \E code \in {"200", "206"} : Ends(<<Reply(code, store[request.name])>>)
       /\ UNCHANGED store

\* Not 404: what is sent is no content.
GetUnknown == /\ Taken("download")
              /\ store[request.name] = "none"
              /\ Ends(<<Reply("200", "directory")>>)
              /\ UNCHANGED store

List == /\ Taken("list")
        /\ Ends(<<Reply("200", "page")>>)
        /\ UNCHANGED store

NotFound == /\ Taken("other")
            /\ Ends(<<Reply("404", "none")>>)
            /\ UNCHANGED store

Next == \/ Take \/ Breaks \/ Refuse
        \/ Put \/ Remove \/ RefuseRemoval \/ RemoveUnknown \/ Done
        \/ Get \/ GetUnknown \/ List \/ NotFound

Spec == Init /\ [][Next]_vars

===============================================================================
