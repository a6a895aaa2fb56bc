----------------------------- MODULE MCConfig -----------------------------
(***************************************************************************)
(* A file and a directory of two.  The contents set each kind of setting,  *)
(* the old keys among them, and have prefixes and excludes as strings and  *)
(* as stanzas, whole and in part; one lacks a datacenter and one names a   *)
(* log level that does not exist.                                          *)
(***************************************************************************)
EXTENDS Config, TLC

Paths     == <<"a.hcl", "conf.d">>
PathFiles == "a.hcl" :> <<"a.hcl">> @@ "conf.d" :> <<"1.hcl", "2.hcl">>
Levels    == {"INFO", "WARN"}
Defaults  == [s \in Setting |-> CASE s = "logLevel" -> "WARN" [] s = "statusDir" -> "statuses"
                                  [] s = "maxStale" -> "2s" [] OTHER -> "none"]

Set(assigned) == assigned @@ [s \in Setting |-> Unset]
Prefix(source, inline, datacenter, destination) ==
  [source |-> source, inline |-> inline, datacenter |-> datacenter, destination |-> destination]

Blank == [set |-> Set(<<>>), oldToken |-> Unset, oldRetry |-> Unset,
          prefixes |-> <<>>, excludes |-> <<>>]

First  == [Blank EXCEPT !.set = Set("maxStale" :> "5s" @@ "token" :> "one" @@ "attempts" :> 3),
                        !.prefixes = <<Prefix("global", Unset, "nyc1", "default")>>]
Second == [Blank EXCEPT !.set = Set("maxStale" :> "9s" @@ "statusDir" :> "mine"),
                        !.prefixes = <<Prefix("other", "nyc1", Unset, "")>>,
                        !.excludes = <<[stanza |-> TRUE, source |-> "other/x"]>>]
Old    == [Blank EXCEPT !.set = Set("token" :> "two" @@ "attempts" :> 7 @@ "logLevel" :> "INFO"),
                        !.oldToken = "three", !.oldRetry = "1s",
                        !.excludes = <<[stanza |-> TRUE, source |-> Unset]>>]
NoDatacenter == [Blank EXCEPT !.prefixes = <<Prefix("global", Unset, Unset, "default")>>]
NoLevel      == [Blank EXCEPT !.set = Set("logLevel" :> "LOUD")]
SourceLess   == [Blank EXCEPT !.prefixes = <<Prefix(Unset, Unset, "nyc1", "default")>>]

Contents   == {Blank, First, Second, Old, NoDatacenter, NoLevel}
Incomplete == {Blank, SourceLess}

Command == Blank @@ [wellFormed |-> TRUE, help |-> FALSE, version |-> FALSE]
Full    == [Command EXCEPT !.set = Set("maxStale" :> "1s" @@ "token" :> "flag"),
                           !.prefixes = <<Prefix("flag", "nyc2", Unset, Unset)>>,
                           !.excludes = <<[stanza |-> FALSE, source |-> "flag/x"]>>]
Refused == {[Command EXCEPT !.wellFormed = FALSE],
            [Command EXCEPT !.prefixes = <<Prefix("", "nyc2", Unset, Unset)>>],
            [Command EXCEPT !.excludes = <<[stanza |-> FALSE, source |-> ""]>>]}
Given   == {Command, Full, [Command EXCEPT !.version = TRUE], [Full EXCEPT !.help = TRUE],
            [Command EXCEPT !.set = Set("statusDir" :> "flag")]} \cup Refused
============================================================================
