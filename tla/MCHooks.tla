------------------------------- MODULE MCHooks -------------------------------
(***************************************************************************)
(* An instance of HookProperties for TLC: a function registered at run     *)
(* time, a hook of the project, one of an extension, and another with the  *)
(* key of the project's.                                                   *)
(***************************************************************************)
EXTENDS HookProperties, TLC

CONSTANTS hr, hp, he, hd, kr, kp, ke

AsConfigured == <<he, hp, hd>>
Sources == hr :> "runtime" @@ hp :> "project" @@ he :> "extension" @@ hd :> "extension"
Keys    == hr :> kr @@ hp :> kp @@ he :> ke @@ hd :> kp

Listens == hr :> {"BeforeTool", "BeforeModel"}
        @@ hp :> {"BeforeTool", "BeforeToolSelection"}
        @@ he :> {"BeforeTool", "BeforeModel", "BeforeToolSelection"}
        @@ hd :> {"BeforeTool"}
Matchers == [h \in Hooks |-> IF h \in {hp, hd} THEN {"edit"} ELSE {"edit", "read"}]

Firings == [event : {"BeforeTool"}, target : {"edit", "read"}]
             \cup [event : {"BeforeModel", "BeforeToolSelection"}, target : {"edit"}]

ToTool  == {[Silent EXCEPT !.decision = "ask", !.edits = TRUE],
            [Silent EXCEPT !.decision = "deny"],
            [Silent EXCEPT !.goes = "no", !.edits = TRUE]}
ToModel == {[Silent EXCEPT !.decision = "deny"],
            [Silent EXCEPT !.goes = "no", !.edits = TRUE]}

Sayings == "BeforeTool" :> ToTool
        @@ "BeforeModel" :> ToModel
        @@ "BeforeToolSelection" :> {[Silent EXCEPT !.mode = m] : m \in {"ANY", "NONE"}}
=============================================================================
