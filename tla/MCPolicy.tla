------------------------------ MODULE MCPolicy ------------------------------
(* An instance of PolicyProperties for TLC.                                *)
EXTENDS PolicyProperties

CONSTANTS log, logTo, npm, both, fetch

TheCalls == {log, logTo, npm, both, fetch}
TheShell == {log, logTo, npm, both}
TheParts == log :> {log} @@ logTo :> {logTo} @@ npm :> {npm} @@ both :> {log, npm}
TheTools == [c \in TheCalls |-> IF c = fetch THEN "fetch" ELSE "shell"]
TheWords == log :> "git" @@ logTo :> "git" @@ npm :> "npm" @@ both :> "git"
            @@ fetch :> "fetch"
TheRoots == [c \in TheCalls |-> IF c = both THEN {"git", "npm"} ELSE {TheWords[c]}]
TheModes == <<"default", "yolo">>

Every == {"default", "yolo"}

All(d, ms, pr) == [tools |-> {"shell", "fetch"}, calls |-> TheCalls, narrow |-> FALSE,
                   modes |-> ms, decision |-> d, redirection |-> FALSE, priority |-> pr]
Some(S, d, red, pr) ==
  [tools |-> {"shell"}, calls |-> S, narrow |-> TRUE, modes |-> Every,
   decision |-> d, redirection |-> red, priority |-> pr]


(* The default policies; a user who denies npm; an administrator who asks  *)
(* about npm, and redirections of git allowed; everything denied.          *)
TheConfigurations ==
  { <<[All("allow", {"yolo"}, 1998) EXCEPT !.redirection = TRUE], All("ask", Every, 1010)>>,
    <<Some({npm}, "deny", FALSE, 4100), All("ask", Every, 1010)>>,
    <<Some({npm}, "ask", FALSE, 5100), Some({log, logTo, both}, "allow", TRUE, 1020),
      All("deny", Every, 1010)>>,
    <<Some({log}, "deny", FALSE, 4100), All("deny", Every, 1010)>> }

=============================================================================
