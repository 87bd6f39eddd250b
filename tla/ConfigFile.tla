----------------------------- MODULE ConfigFile -----------------------------
(***************************************************************************)
(* The persisted configuration of the edge/fleet connector and of the      *)
(* action-outcome supervisor: POST parses a request body field by field,   *)
(* validates it, installs it and writes it as a JSON file, and as a row of  *)
(* a catalog table where the supervisor has one; a restart reads them back *)
(* with the same field readers, the file first.  The configuration has 24  *)
(* and 58 fields; the code treats them by kind, and the model keeps one    *)
(* field of each kind the code tells apart.  A string is a sequence of     *)
(* characters: "Q" a double quote, "B" a backslash, "NL" a line feed, "C"  *)
(* any other control character, anything else itself.                      *)
(***************************************************************************)
EXTENDS Integers, Sequences, SequencesExt

CONSTANTS
    CfLiterals,    \* string literals a request may hold, as written in JSON
    CfNumbers,     \* the numbers a request may hold
    CfMax32,       \* what stands for the largest uint32_t
    CfMaxOps,      \* bound on requests
    CfMaxFaults    \* bound on failing tables, starts, renames and unlinks

ASSUME CfConstants ==
    /\ CfNumbers \subseteq Int /\ CfMax32 \in Nat \ {0}
    /\ CfMaxOps \in Nat /\ CfMaxFaults \in Nat

VARIABLES
    cfSvc,    \* the service: "edge" or "action"
    cfRun,    \* the runtime: its configuration, its SQL hooks, enabled or not
    cfStores, \* where configurations are to be kept: "file", "catalog"
    cfUse,    \* the stores the last start has set up
    cfFile,   \* the file: [there, doc, enabled]
    cfCatalog,\* the catalog's newest row, alike
    cfKept,   \* the last SQL configuration a POST acknowledged, less DELETEs, with all stores in use
    cfSplit,  \* a store was changed and the request failed, or the other store was not
    cfBooted, \* nothing was requested since the last start, in which nothing failed
    cfLeft    \* [ops, faults] still allowed

cfVars == <<cfSvc, cfRun, cfStores, cfUse, cfFile, cfCatalog, cfKept, cfSplit, cfBooted, cfLeft>>

\* The fields of the configuration, by the way the code reads and checks them.
EdgeFields == [name |-> "text", checkpoint_path |-> "text",
               edge_sql_url |-> "url", fleet_inbox_table |-> "ident",
               allow_late_events |-> "flag", batch_limit |-> "positive",
               max_retries_per_event |-> "positive32",
               retry_backoff_ms |-> "natural", outbox_query_limit |-> "sqlpositive"]

ActionFields == [name |-> "text", worker_owner_id |-> "text", mode |-> "fixed",
                 commit_table |-> "ident", worker_lease_enabled |-> "flag",
                 batch_limit |-> "positive",
                 max_consecutive_failures |-> "positive32",
                 worker_owner_epoch |-> "natural",
                 suppress_outcome_score_below |-> "integer"]

CfFields(s) == IF s = "edge" THEN EdgeFields ELSE ActionFields

Texts == {"text", "url", "ident", "fixed"}

\* The value a field has when the document does not give it.
CfDefault(s) == [k \in DOMAIN CfFields(s) |->
    CASE k \in {"checkpoint_path", "edge_sql_url", "worker_owner_id"} -> <<>>
      [] CfFields(s)[k] = "flag" -> FALSE
      [] CfFields(s)[k] \in Texts -> <<"d">>
      [] OTHER -> 1]

\* A bug: the quoting characters are written as they are.
EscapeLines(str) ==
    FlattenSeq([i \in 1 .. Len(str) |->
        IF str[i] = "NL" THEN <<"B", "n">> ELSE <<str[i]>>])

\* json_escape: quotes, backslashes and control characters are escaped.
Escape(str) ==
    FlattenSeq([i \in 1 .. Len(str) |->
        CASE str[i] \in {"Q", "B"} -> <<"B", str[i]>>
          [] str[i] = "NL" -> <<"B", "n">>
          [] str[i] = "C" -> <<"B", "u", "0", "0", "0", "1">>
          [] OTHER -> <<str[i]>>])

\* read_json_string_at: a backslash makes a line feed of n and itself of
\* anything else, and a quote ends the literal; what comes out of an escape
\* \u0001 is the five characters after the backslash.
ReadString(lit) ==
    LET step(acc, ch) ==
            IF acc.done THEN acc
            ELSE IF acc.esc
                 THEN [acc EXCEPT !.esc = FALSE,
                                  !.out = Append(@, IF ch = "n" THEN "NL" ELSE ch)]
            ELSE IF ch = "B" THEN [acc EXCEPT !.esc = TRUE]
            ELSE IF ch = "Q" THEN [acc EXCEPT !.done = TRUE]
            ELSE [acc EXCEPT !.out = Append(@, ch)]
        read == FoldLeft(step, [esc |-> FALSE, done |-> FALSE, out |-> <<>>], lit)
    IN  IF read.esc THEN <<>> ELSE read.out

\* json_string_field: a missing field and an empty string both give the fallback.
JsonString(doc, k, fallback) ==
    LET value == IF k \in DOMAIN doc THEN ReadString(doc[k]) ELSE <<>>
    IN  IF value = <<>> THEN fallback ELSE value

\* json_i64_field and json_bool_field.
JsonValue(doc, k, fallback) == IF k \in DOMAIN doc THEN doc[k] ELSE fallback

\* The strings of a document, and its numbers and flags.
TextKeys(s) == {k \in DOMAIN CfFields(s) : CfFields(s)[k] \in Texts}
ReadTexts(s, doc) == [k \in TextKeys(s) |-> JsonString(doc, k, CfDefault(s)[k])]
ReadRest(s, doc) ==
    [k \in DOMAIN CfFields(s) \ TextKeys(s) |-> JsonValue(doc, k, CfDefault(s)[k])]

\* A document read as a configuration of service s.
CfRead(s, doc) == ReadTexts(s, doc) @@ ReadRest(s, doc)

\* The body of a POST of each service.
EdgeBody(doc) == CfRead("edge", doc)
ActionBody(doc) == CfRead("action", doc)

\* The configuration as the persisted JSON of each service writes it.
CfJson(s, cfg) ==
    [k \in DOMAIN cfg |-> IF CfFields(s)[k] \in Texts THEN Escape(cfg[k]) ELSE cfg[k]]
EdgeJson(cfg) == CfJson("edge", cfg)
ActionJson(cfg) == CfJson("action", cfg)
CfWritten(s, cfg) == IF s = "edge" THEN EdgeJson(cfg) ELSE ActionJson(cfg)

\* What the limits of a kind allow.
LimitOk(kind, n) ==
    CASE kind \in {"positive", "sqlpositive"} -> n > 0
      [] kind = "positive32" -> n > 0 /\ n <= CfMax32
      [] kind = "natural" -> n >= 0
      [] OTHER -> TRUE

\* parse_persisted_*_limit: the limits as the reader of the file checks them.
FileLimitOk(kind, n) == LimitOk(kind, n)

Numeric(s) == {k \in DOMAIN CfFields(s) :
                  CfFields(s)[k] \in {"positive", "positive32", "natural", "sqlpositive", "integer"}}

\* validateEdgeFleetSqlHttpAdapterConfig: the strings the SQL adapter uses.
EdgeSqlValid(cfg) ==
    /\ cfg.edge_sql_url = <<>> \/ Head(cfg.edge_sql_url) = "h"
    /\ \A i \in 1 .. Len(cfg.fleet_inbox_table) : cfg.fleet_inbox_table[i] \in {"d", "h", "n"}

\* validateActionOutcomeSqlAdapterConfig.
ActionSqlValid(cfg) ==
    /\ cfg.mode = <<"d">>
    /\ \A i \in 1 .. Len(cfg.commit_table) : cfg.commit_table[i] \in {"d", "h", "n"}
    /\ cfg.worker_lease_enabled => cfg.worker_owner_id # <<>>

\* A runtime nobody configured, and no file.
Cleared(s) == [cfg |-> CfDefault(s), hooks |-> [set |-> FALSE, cfg |-> CfDefault(s)],
               enabled |-> FALSE]
NoFile(s) == [there |-> FALSE, doc |-> CfWritten(s, CfDefault(s)), enabled |-> FALSE]
NothingKept(s) == [there |-> FALSE, cfg |-> CfDefault(s), enabled |-> FALSE]

CfInit ==
    /\ cfSvc \in {"edge", "action"}
    /\ cfRun = Cleared(cfSvc)
    /\ cfStores \in (IF cfSvc = "edge" THEN {{"file"}} ELSE SUBSET {"file", "catalog"} \ {{}})
    /\ cfUse = cfStores
    /\ cfFile = NoFile(cfSvc) /\ cfCatalog = NoFile(cfSvc)
    /\ cfKept = NothingKept(cfSvc)
    /\ cfSplit = FALSE /\ cfBooted = TRUE
    /\ cfLeft = [ops |-> CfMaxOps, faults |-> CfMaxFaults]

\* The bodies a request may have: a value for one field, or for the two that
\* the validation relates.
Values(kind) == CASE kind = "flag" -> BOOLEAN
                  [] kind \in Texts -> CfLiterals
                  [] OTHER -> CfNumbers
Bodies(s) ==
    UNION {{[f \in {k} |-> v] : v \in Values(CfFields(s)[k])} : k \in DOMAIN CfFields(s)}
    \cup (IF s = "edge" THEN {}
          ELSE {[worker_owner_id |-> v, worker_lease_enabled |-> TRUE] : v \in CfLiterals})

\* configure(): the runtime takes the configuration and is stopped; the hooks
\* installed before stay.
Configured(run, cfg) == [run EXCEPT !.cfg = cfg, !.enabled = FALSE]

\* set_*_sql_adapter: the hooks work with the configuration they were made from.
Hooked(run, cfg) == [run EXCEPT !.hooks = [set |-> TRUE, cfg |-> cfg]]

Started(run, enabled) == [run EXCEPT !.enabled = enabled]

Entry(s, cfg, enabled) == [there |-> TRUE, doc |-> CfWritten(s, cfg), enabled |-> enabled]

\* save_persisted_*_config: a temporary file renamed over the old one.  When
\* the rename fails the old file is removed and the rename tried once more.
Saved(s, file, cfg, enabled, fault) ==
    CASE fault = "write" -> file
      [] fault = "rename" -> NoFile(s)
      [] OTHER -> Entry(s, cfg, enabled)

\* persist_action_outcome_supervisor_catalog_config_, after the file: a row with the
\* same text and a newer config_epoch.
Catalogued(cfg, enabled, fault) ==
    IF fault \in {"write", "rename", "catalog"} THEN cfCatalog ELSE Entry(cfSvc, cfg, enabled)

\* Where a POST ends: the first check that fails.
EdgeEnds(cfg, sql, fault) ==
    CASE \E k \in Numeric("edge") : k # "outbox_query_limit"
                /\ ~LimitOk(EdgeFields[k], cfg[k]) -> "rejected"
      [] sql /\ ~(LimitOk("sqlpositive", cfg.outbox_query_limit) /\ EdgeSqlValid(cfg))
                -> "configured"
      [] sql /\ fault = "tables" -> "configured"
      [] fault = "start" -> "hooked"
      [] sql /\ fault \in {"write", "rename", "catalog"} -> "unsaved"
      [] OTHER -> "ok"

ActionEnds(cfg, sql, fault) ==
    CASE \E k \in Numeric("action") : ~LimitOk(ActionFields[k], cfg[k]) -> "rejected"
      [] sql /\ ~ActionSqlValid(cfg) -> "rejected"
      [] cfg.mode # <<"d">> -> "stopped"
      [] sql /\ fault = "tables" -> "configured"
      [] fault = "start" -> "hooked"
      [] sql /\ fault \in {"write", "rename", "catalog"} -> "unsaved"
      [] OTHER -> "ok"

\* A POST with what it does to the runtime, the stores and the acknowledged state.
CfPost(end, cfg, sql, enabled, fault) ==
    LET configured == Configured(cfRun, cfg)
        hooked == IF sql THEN Hooked(configured, cfg) ELSE configured
        saves == sql /\ end \in {"ok", "unsaved"}
        kept == sql /\ end = "ok" /\ cfUse = cfStores
        splits == \/ cfUse \notin {{}, cfStores} \/ fault = "rename"
                  \/ fault = "catalog" /\ "file" \in cfUse /\ ~cfCatalog.there
    IN  /\ cfRun' = CASE end = "rejected" -> cfRun
                      [] end = "stopped" -> [cfRun EXCEPT !.enabled = FALSE]
                      [] end = "configured" -> configured
                      [] end = "hooked" -> hooked
                      [] OTHER -> Started(hooked, enabled)
        /\ cfFile' = IF saves /\ "file" \in cfUse
                     THEN Saved(cfSvc, cfFile, cfg, enabled, fault) ELSE cfFile
        /\ cfCatalog' = IF saves /\ "catalog" \in cfUse
                        THEN Catalogued(cfg, enabled, fault) ELSE cfCatalog
        /\ cfKept' = IF kept THEN [there |-> TRUE, cfg |-> cfg, enabled |-> enabled] ELSE cfKept
        /\ cfSplit' = (~kept /\ (cfSplit \/ (saves /\ splits)))
        /\ cfBooted' = FALSE
        /\ cfLeft' = [ops |-> cfLeft.ops - 1,
                      faults |-> cfLeft.faults - (IF fault = "none" THEN 0 ELSE 1)]
        /\ UNCHANGED <<cfSvc, cfStores, cfUse>>

Faults(some) == {"none"} \cup (IF cfLeft.faults > 0 THEN some ELSE {})
PostFaults == {"tables", "start"} \cup (IF "file" \in cfUse THEN {"write", "rename"} ELSE {})
                                 \cup (IF "catalog" \in cfUse THEN {"catalog"} ELSE {})

EdgePost ==
    /\ cfSvc = "edge" /\ cfLeft.ops > 0
    /\ \E b \in Bodies("edge"), sql \in BOOLEAN, enabled \in BOOLEAN,
          fault \in Faults(PostFaults) :
        /\ fault = "start" => enabled
        /\ LET cfg == EdgeBody(b)
           IN  CfPost(EdgeEnds(cfg, sql, fault), cfg, sql, enabled, fault)

ActionPost ==
    /\ cfSvc = "action" /\ cfLeft.ops > 0
    /\ \E b \in Bodies("action"), sql \in BOOLEAN, enabled \in BOOLEAN,
          fault \in Faults(PostFaults) :
        /\ fault = "start" => enabled
        /\ LET cfg == ActionBody(b)
           IN  CfPost(ActionEnds(cfg, sql, fault), cfg, sql, enabled, fault)

\* The file is removed, or stays when that fails; then the rows of the catalog.
Unlinked(fault) == IF "file" \notin cfUse \/ fault = "unlink" THEN cfFile ELSE NoFile(cfSvc)
Uncatalogued(fault) ==
    IF "catalog" \notin cfUse \/ fault \in {"unlink", "clear"} THEN cfCatalog ELSE NoFile(cfSvc)

\* DELETE: the runtime is cleared, its hooks stay; the request fails with the
\* removal of the file or of the rows.
CfDelete ==
    /\ cfLeft.ops > 0
    /\ \E fault \in Faults((IF "file" \in cfUse THEN {"unlink"} ELSE {})
                          \cup (IF "catalog" \in cfUse THEN {"clear"} ELSE {})) :
        LET done == fault = "none" /\ cfUse = cfStores IN
        /\ cfRun' = [cfRun EXCEPT !.cfg = CfDefault(cfSvc), !.enabled = FALSE]
        /\ cfFile' = Unlinked(fault) /\ cfCatalog' = Uncatalogued(fault)
        /\ cfKept' = IF done THEN NothingKept(cfSvc) ELSE cfKept
        /\ cfSplit' = (~done /\ (cfSplit \/ cfUse \notin {{}, cfStores}))
        /\ cfLeft' = [ops |-> cfLeft.ops - 1,
                      faults |-> cfLeft.faults - (IF fault = "none" THEN 0 ELSE 1)]
    /\ cfBooted' = FALSE /\ UNCHANGED <<cfSvc, cfStores, cfUse>>

\* parse_persisted_*_config: refused when a limit or a string is.
EdgeParsed(doc) ==
    LET cfg == CfRead("edge", doc)
    IN  [cfg |-> cfg,
         ok |-> EdgeSqlValid(cfg) /\ \A k \in Numeric("edge") : FileLimitOk(EdgeFields[k], cfg[k])]
ActionParsed(doc) ==
    LET cfg == CfRead("action", doc)
    IN  [cfg |-> cfg,
         ok |-> ActionSqlValid(cfg) /\ \A k \in Numeric("action") : FileLimitOk(ActionFields[k], cfg[k])]

\* What a start makes of a configuration it has read: configure, hooks, start, up to
\* what fails.
Installed(run, read, enabled, fault) ==
    [run |-> CASE ~read.ok -> run
               [] fault = "tables" -> Configured(run, read.cfg)
               [] fault = "start" -> Hooked(Configured(run, read.cfg), read.cfg)
               [] OTHER -> Started(Hooked(Configured(run, read.cfg), read.cfg), enabled),
     ok |-> read.ok /\ fault = "none"]
Loaded(run, entry, fault) ==
    CASE ~entry.there -> [run |-> run, ok |-> TRUE]
      [] entry.there /\ fault = "read" -> [run |-> run, ok |-> FALSE]
      [] OTHER -> Installed(run, IF cfSvc = "edge" THEN EdgeParsed(entry.doc) ELSE ActionParsed(entry.doc),
                            entry.enabled, fault)

\* set_*_config_persistence and set_action_outcome_supervisor_catalog_config of a new
\* server, which goes on without a store whose configuration does not load, and
\* without the next.
FileLoaded(fault) ==
    IF "file" \in cfStores THEN Loaded(Cleared(cfSvc), cfFile, fault) ELSE [run |-> Cleared(cfSvc), ok |-> TRUE]
CatalogLoaded(first, fault) ==
    IF "catalog" \in cfStores /\ first.ok THEN Loaded(first.run, cfCatalog, fault) ELSE first

LoadFaults(store, entry) ==
    {"none"} \cup (IF store \notin cfStores \/ ~entry.there THEN {} ELSE {"read", "tables"})
             \cup (IF store \notin cfStores \/ ~entry.there \/ ~entry.enabled THEN {} ELSE {"start"})

CfRestart ==
    /\ ~cfBooted
    /\ \E ff \in LoadFaults("file", cfFile), cf \in LoadFaults("catalog", cfCatalog) :
       \E first \in {FileLoaded(ff)} : \E last \in {CatalogLoaded(first, cf)} :
         LET faults == (IF ff = "none" THEN 0 ELSE 1) + (IF cf = "none" THEN 0 ELSE 1) IN
         /\ faults <= cfLeft.faults /\ cfLeft' = [cfLeft EXCEPT !.faults = @ - faults]
         /\ cfRun' = last.run
         /\ cfUse' = IF last.ok THEN cfStores ELSE IF first.ok THEN cfStores \ {"catalog"} ELSE {}
         /\ cfBooted' = (faults = 0)
    /\ UNCHANGED <<cfSvc, cfStores, cfFile, cfCatalog, cfKept, cfSplit>>

CfNext == EdgePost \/ ActionPost \/ CfDelete \/ CfRestart

\* No text of the configuration holds a control character other than a line
\* feed: json_escape writes \u0001, which read_json_string_at does not decode.
Readable(cfg) ==
    \A k \in TextKeys(cfSvc) :
        \A i \in 1 .. Len(cfg[k]) : cfg[k][i] # "C"

\* A server that has just started, with no failure, runs what the last acknowledged
\* SQL POST installed, with every field as it was, enabled or not as it was, and runs
\* nothing after an acknowledged DELETE: what the save writes, the load reads, whichever
\* requests and starts failed before.  Set apart: a control character in a name, a save
\* that failed after it had removed the old file or after the file was written and before
\* the catalog's first row was, and what was requested while a start had left a store
\* unused.
ConfigReloads ==
    cfBooted /\ ~cfSplit /\ Readable(cfKept.cfg) =>
        cfRun = IF cfKept.there
                THEN [cfg |-> cfKept.cfg, hooks |-> [set |-> TRUE, cfg |-> cfKept.cfg],
                      enabled |-> cfKept.enabled]
                ELSE Cleared(cfSvc)

=============================================================================
