------------------------------ MODULE Config ------------------------------
(***************************************************************************)
(* The configuration of a runner (config.go, config_prefix.go,             *)
(* config_exclude.go, mapstructure.go, and ParseFlags and loadConfigs of   *)
(* cli.go): defaults, files and command line flags are merged when the     *)
(* process starts and again at every reload, with the files as they are by *)
(* then.                                                                   *)
(*                                                                         *)
(* A configuration has settings, which have at most one value each, and    *)
(* the lists of prefixes and excludes.  A few settings stand for all:      *)
(* max_stale and log_level are set in Finalize if nothing else has set     *)
(* them, status_dir in DefaultConfig already; token, attempts and backoff  *)
(* belong to the consul stanza and have, or had, keys of their own at the  *)
(* top level.                                                              *)
(***************************************************************************)
EXTENDS Naturals, Sequences, SequencesExt

CONSTANTS
  Path,       \* the arguments of -config, in the order they are given
  FilesOf,    \* [path -> Seq(file)]: the file, or what may be in the directory
  Directory,  \* the paths that are directories
  Content,    \* what a file may contain
  Flags,      \* what the command line may give
  LogLevel,   \* the log levels that there are
  Default,    \* [Setting -> value] of Finalize
  Unset,      \* a nil pointer
  Missing     \* the content of a file that does not exist

Setting == {"maxStale", "logLevel", "statusDir", "token", "attempts", "backoff"}
File    == UNION {{FilesOf[Path[i]][j] : j \in DOMAIN FilesOf[Path[i]]} : i \in DOMAIN Path}

\* A prefix and an exclude as they are written, in a file or on the command line.
Text    == STRING \cup {Unset}
Stanza  == [source : Text, inline : Text, datacenter : Text, destination : Text]
Exclude == [stanza : BOOLEAN, source : Text]

ASSUME ConstantsAssumption ==
  /\ Path \in Seq(STRING) /\ \A i \in DOMAIN Path : FilesOf[Path[i]] \in Seq(STRING)
  /\ \A s \in Setting : Default[s] # Unset
  /\ Unset \notin STRING /\ Missing \notin Content
  /\ \A given \in Content \cup Flags :
       given.prefixes \in Seq(Stanza) /\ given.excludes \in Seq(Exclude)
  /\ \A given \in Flags :
       /\ \A i \in DOMAIN given.prefixes :
            given.prefixes[i].source # Unset /\ given.prefixes[i].datacenter = Unset
       /\ \A i \in DOMAIN given.excludes :
            ~given.excludes[i].stanza /\ given.excludes[i].source # Unset

\* A nil pointer is not the empty string.
ASSUME UnsetAssumption == Unset # ""

VARIABLES
  files,      \* the content of each file
  cliConfig,  \* defaults and flags, kept for reloads
  flags,      \* the flags that were given
  cfg,        \* the configuration of the current runner
  seen,       \* the files when it was loaded
  process     \* "new", "running" or what the process ended with

vars == <<files, cliConfig, flags, cfg, seen, process>>

----------------------------------------------------------------------------
(* Prefixes and excludes.                                                  *)

\* Mutant: a destination of no characters is kept.
ParsePrefixEmpty(source, dc, destination) ==
  [source |-> source, datacenter |-> dc,
   destination |-> IF destination = Unset THEN source ELSE destination,
   dependency |-> <<source, dc>>]

\* ParsePrefixConfig: the destination defaults to the source.
ParsePrefixConfig(source, dc, destination) ==
  [source |-> source, datacenter |-> dc,
   destination |-> IF destination \in {Unset, ""} THEN source ELSE destination,
   dependency |-> <<source, dc>>]

\* The datacenter is written behind the source ("source@dc") or beside it.
Datacenter(stanza) == IF stanza.inline # Unset THEN stanza.inline ELSE stanza.datacenter

\* A stanza is put together to "source@datacenter:destination" and parsed like
\* a string; one without a source is handed on and decoded field by field.
MapToPrefixConfig(stanza) ==
  IF stanza.source = Unset
    THEN [source |-> Unset, datacenter |-> stanza.datacenter,
          destination |-> stanza.destination, dependency |-> Unset]
    ELSE ParsePrefixConfig(stanza.source, Datacenter(stanza), stanza.destination)

\* What ParsePrefixConfig accepts: a source and one datacenter.
ValidPrefix(stanza) ==
  stanza.source = Unset \/ /\ stanza.source # "" /\ Datacenter(stanza) # ""
                           /\ (stanza.inline = Unset) # (stanza.datacenter = Unset)

\* ParseExcludeConfig refuses the empty string; a stanza does not go through it.
ValidExclude(exclude) == exclude.stanza \/ exclude.source # ""

\* Finalize of a prefix and of an exclude: what is missing becomes the empty
\* string, but there is no query to watch then.
FinalizeExclude(source) == IF source = Unset THEN "" ELSE source

FinalizePrefix(prefix) ==
  [source      |-> IF prefix.source = Unset THEN "" ELSE prefix.source,
   datacenter  |-> IF prefix.datacenter = Unset THEN "" ELSE prefix.datacenter,
   destination |-> IF prefix.destination = Unset THEN "" ELSE prefix.destination,
   dependency  |-> prefix.dependency]

----------------------------------------------------------------------------
(* One configuration.                                                      *)

ParseLists(content) ==
  [prefixes |-> [i \in DOMAIN content.prefixes |-> MapToPrefixConfig(content.prefixes[i])],
   excludes |-> [i \in DOMAIN content.excludes |-> content.excludes[i].source]]

Valid(content) ==
  /\ \A i \in DOMAIN content.prefixes : ValidPrefix(content.prefixes[i])
  /\ \A i \in DOMAIN content.excludes : ValidExclude(content.excludes[i])

\* The top-level keys of old are moved into the consul stanza: the token over
\* the one that is there, retry as a new retry stanza in place of the old one.
MoveDeprecated(content) ==
  [s \in Setting |->
     CASE s = "token" /\ content.oldToken # Unset -> content.oldToken
       [] s = "backoff" /\ content.oldRetry # Unset -> content.oldRetry
       [] s = "attempts" /\ content.oldRetry # Unset -> Unset
       [] OTHER -> content.set[s]]

Parse(content) ==
  LET lists == ParseLists(content)
  IN  [set |-> MoveDeprecated(content), prefixes |-> lists.prefixes, excludes |-> lists.excludes]

EmptyConfig == [set |-> [s \in Setting |-> Unset], prefixes |-> <<>>, excludes |-> <<>>]

DefaultConfig == [EmptyConfig EXCEPT !.set["statusDir"] = Default["statusDir"]]

\* Mutant: what was set first stays.
MergeFirst(c, o) ==
  [set |-> [s \in Setting |-> IF c.set[s] = Unset THEN o.set[s] ELSE c.set[s]],
   prefixes |-> c.prefixes \o o.prefixes, excludes |-> c.excludes \o o.excludes]

\* Settings of o replace those of c; lists are joined.
Merge(c, o) ==
  [set |-> [s \in Setting |-> IF o.set[s] = Unset THEN c.set[s] ELSE o.set[s]],
   prefixes |-> c.prefixes \o o.prefixes, excludes |-> c.excludes \o o.excludes]

FinalizeLists(c) ==
  [set |-> c.set, prefixes |-> [i \in DOMAIN c.prefixes |-> FinalizePrefix(c.prefixes[i])],
   excludes |-> [i \in DOMAIN c.excludes |-> FinalizeExclude(c.excludes[i])]]

Finalize(c) ==
  [FinalizeLists(c) EXCEPT
     !.set = [s \in Setting |-> IF c.set[s] = Unset THEN Default[s] ELSE c.set[s]]]

----------------------------------------------------------------------------
(* Loading.                                                                *)

\* A path can be loaded: a file must be there, a directory contains by now what
\* it contains.
Readable(contents) ==
  \A i \in DOMAIN Path :
    LET present == {f \in ToSet(FilesOf[Path[i]]) : contents[f] # Missing}
    IN  /\ Path[i] \in Directory \/ present # {}
        /\ \A f \in present : Valid(contents[f])

MergeAll(base, configs) == FoldLeft(Merge, base, configs)

\* A file that is not in the directory adds nothing.
FromFile(content) == IF content = Missing THEN EmptyConfig ELSE Parse(content)

\* The files of a directory are merged in the order of their names.
FromPath(contents, path) ==
  MergeAll(EmptyConfig, [i \in DOMAIN FilesOf[path] |-> FromFile(contents[FilesOf[path][i]])])

\* loadConfigs, with the configuration that comes last.
LoadConfigs(contents, override) ==
  LET merged == MergeAll(DefaultConfig, [i \in DOMAIN Path |-> FromPath(contents, Path[i])])
  IN  Finalize(Merge(merged, override))

\* Runner.init merges and finalizes once more.
RunnerConfig(c) == Finalize(Merge(DefaultConfig, c))

\* setup refuses a log level it does not know.
Setup(c) == c.set["logLevel"] \in LogLevel

----------------------------------------------------------------------------
(* The process.                                                            *)

Init ==
  /\ files \in [File -> Content \cup {Missing}]
  /\ flags \in Flags
  /\ cliConfig = DefaultConfig /\ cfg = DefaultConfig
  /\ seen = files
  /\ process = "new"

\* A file is written or removed while the process runs.
Edit(file, content) ==
  /\ process = "running"
  /\ files' = [files EXCEPT ![file] = content]
  /\ UNCHANGED <<cliConfig, flags, cfg, seen, process>>

\* ParseFlags sets the flags over the defaults.
ParseFlags(given) ==
  [set |-> [s \in Setting |-> IF given.set[s] = Unset THEN DefaultConfig.set[s] ELSE given.set[s]],
   prefixes |-> ParseLists(given).prefixes, excludes |-> ParseLists(given).excludes]

Ends(outcome) ==
  /\ process' = outcome
  /\ UNCHANGED <<cliConfig, cfg, seen>>

LoadFails(override) ==
  /\ ~Readable(files) \/ ~Setup(LoadConfigs(files, override))
  /\ Ends("configError")

\* A runner is created from the files and an overriding configuration, unless
\* the client fails.  Lists are joined without copying the elements of the
\* second one, so Finalize has written to those of the override, too.
NewRunner(override) ==
  /\ Readable(files) /\ Setup(LoadConfigs(files, override))
  /\ \/ /\ cfg' = RunnerConfig(LoadConfigs(files, override))
        /\ cliConfig' = FinalizeLists(override)
        /\ seen' = files
        /\ process' = "running"
     \/ Ends("runnerError")

\* Every flag is known, its value can be converted and its setter takes it.
Accepted(given) == given.wellFormed /\ Valid(given)

\* -help ends the process, too, unless something before it was refused.
FlagsFail ==
  /\ process = "new"
  /\ \/ flags.help /\ Ends("ok")
     \/ ~flags.help /\ ~Accepted(flags) /\ Ends("flagsError")
  /\ UNCHANGED <<files, flags>>

\* -version is looked at once the configuration has been loaded.
Start ==
  /\ process = "new" /\ ~flags.help /\ Accepted(flags)
  /\ LET override == ParseFlags(flags) IN
       \/ LoadFails(override)
       \/ Readable(files) /\ Setup(LoadConfigs(files, override)) /\ flags.version /\ Ends("ok")
       \/ ~flags.version /\ NewRunner(override)
  /\ UNCHANGED <<files, flags>>

\* Mutant: the flags are merged into the configuration in use.
ReloadInUse ==
  /\ process = "running"
  /\ Len(cfg.prefixes) < 9
  /\ LoadFails(cfg) \/ NewRunner(cfg)
  /\ UNCHANGED <<files, flags>>

Reload ==
  /\ process = "running"
  /\ LoadFails(cliConfig) \/ NewRunner(cliConfig)
  /\ UNCHANGED <<files, flags>>

Next ==
  \/ \E file \in File, content \in Content \cup {Missing} : Edit(file, content)
  \/ FlagsFail \/ Start \/ Reload

Spec == Init /\ [][Next]_vars

----------------------------------------------------------------------------
(* Properties.                                                             *)

\* The files in the order of precedence: those of the paths from left to right,
\* those of a directory by name.
Place        == UNION {{<<i, j>> : j \in DOMAIN FilesOf[Path[i]]} : i \in DOMAIN Path}
Before(p, q) == p[1] < q[1] \/ (p[1] = q[1] /\ p[2] < q[2])
At(p)        == seen[FilesOf[Path[p[1]]][p[2]]]

\* What a file says of a setting: a deprecated key counts, too, and a deprecated
\* retry is all that is said of retries.
Says(content, s) ==
  IF content = Missing THEN Unset
  ELSE IF s \in {"backoff", "attempts"} /\ content.oldRetry # Unset
    THEN IF s = "backoff" THEN content.oldRetry ELSE Unset
    ELSE IF s = "token" /\ content.oldToken # Unset THEN content.oldToken ELSE content.set[s]

Speakers(s) == {p \in Place : Says(At(p), s) # Unset}

\* The prefixes and excludes of all files, in that order, and of the flags.
PrefixesOf(content) == IF content = Missing THEN <<>> ELSE content.prefixes
ExcludesOf(content) == IF content = Missing THEN <<>> ELSE content.excludes
PathPrefixes(i) == FlattenSeq([j \in DOMAIN FilesOf[Path[i]] |-> PrefixesOf(At(<<i, j>>))])
PathExcludes(i) == FlattenSeq([j \in DOMAIN FilesOf[Path[i]] |-> ExcludesOf(At(<<i, j>>))])
AllPrefixes == FlattenSeq([i \in DOMAIN Path |-> PathPrefixes(i)]) \o flags.prefixes
AllExcludes == FlattenSeq([i \in DOMAIN Path |-> PathExcludes(i)]) \o flags.excludes

\* A flag decides a setting; if there is none the last file that says something
\* of it, and if there is none either the default.
SettingDecided(s) ==
  \/ flags.set[s] # Unset /\ cfg.set[s] = flags.set[s]
  \/ /\ flags.set[s] = Unset
     /\ \E p \in Speakers(s) : /\ \A q \in Speakers(s) : q = p \/ Before(q, p)
                              /\ cfg.set[s] = Says(At(p), s)
  \/ flags.set[s] = Unset /\ Speakers(s) = {} /\ cfg.set[s] = Default[s]

\* Settings have the value with the highest precedence, the status directory
\* excepted, for which files are not asked (StatusDirHonoured).  Every prefix and
\* every exclude is there, once and in order, however often files and flags have
\* been merged (cli.go:138): with its own source, with the datacenter that is
\* written behind or beside it, and with its destination or the one that is
\* implied.
Precedence ==
  process = "running" =>
    /\ \A s \in Setting \ {"statusDir"} : SettingDecided(s)
    /\ Len(cfg.prefixes) = Len(AllPrefixes) /\ Len(cfg.excludes) = Len(AllExcludes)
    /\ \A i \in DOMAIN AllPrefixes :
         LET entry == AllPrefixes[i]
         IN  entry.source # Unset =>
               /\ cfg.prefixes[i].source = entry.source
               /\ cfg.prefixes[i].datacenter \in {entry.datacenter, entry.inline} \ {Unset}
               /\ cfg.prefixes[i].destination =
                    IF entry.destination \in {Unset, ""} THEN entry.source ELSE entry.destination
    /\ \A i \in DOMAIN AllExcludes :
         AllExcludes[i].source # Unset => cfg.excludes[i] = AllExcludes[i].source

\* A reload with the files unchanged changes nothing.
ReloadStable ==
  [][process = "running" /\ process' = "running" /\ files = seen => cfg' = cfg]_vars

\* No prefix that is watched has an empty destination: replicate would list
\* the whole store below it (runner.go:372) and delete what is not its own.
DestinationsGiven ==
  process = "running" =>
    \A i \in DOMAIN cfg.prefixes :
      cfg.prefixes[i].dependency # Unset =>
        "" \notin {cfg.prefixes[i].source, cfg.prefixes[i].datacenter, cfg.prefixes[i].destination}

\* A status directory set in a file is used, unless a flag gives another.
StatusDirHonoured ==
  process = "running" =>
    \A p \in Speakers("statusDir") : cfg.set["statusDir"] # Default["statusDir"]

\* Every prefix a runner is given has a source to watch.
PrefixesComplete ==
  process = "running" => \A i \in DOMAIN cfg.prefixes : cfg.prefixes[i].dependency # Unset

\* No exclude takes in every key there is.
ExcludesProper == process = "running" => "" \notin ToSet(cfg.excludes)
============================================================================
