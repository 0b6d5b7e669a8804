# PAAC in TLA+

PAAC (`crates/`) puts an authorization check in front of a language model. A
request carries an identity and a prompt or a tool call; PAAC makes an
authorization query of it, evaluates the query with the Cedar policies deployed
when the proxy started, and lets the prompt, the tool call or the retrieval
through or not. Policies are texts in a small language that an operator commits,
signs and deploys with a command line. Every decision is to leave evidence.

This directory holds TLA+ modules of the parts of PAAC whose behaviour depends on
order (concurrent handlers, concurrent commands, a writer thread, failures and
restarts) and of the way from a prompt, a tool call or a policy text to a
verdict. Small instances are checked with TLC; the main safety results are
proved with TLAPS for every value of the constants. Paths below are relative to
the repository, `proxy` is `crates/authz-llm-proxy/src`.

## 1. The system

| Component | State it keeps | Operations | What is hard |
|---|---|---|---|
| Request handlers (`proxy/routes.rs`, `mcp.rs`, `a2a.rs`, `state.rs`) | the handler's locals, four shared counters, what the LLM and the connector were sent | chat completions with the tool-call filter, retrieve, check, MCP tools/call, A2A authorize; explain and board read; health, ready, metrics answer from memory | interleaving at every lock and await; checks that fail half way through a reply; clients that leave |
| Engine (`proxy/engine.rs`, `authz-core/src/hot_cache.rs`) | one bundle in an `ArcSwap`, a store or none | `from_config`, `check`, `allow_or_forbid`, `is_ready` | reads the files other processes write; the development fallback; what the signature check accepts; decisions without a store to hear of them |
| Policy store and signing (`authz-policy/src/store.rs`, `sign.rs`, `authz-cli/src/main.rs`) | `active.dsl`, `HEAD`, `revisions/`, `deployed/current.json`, `data/keys/signing.json` | commit, sign, deploy, ensure_key, draft, diff | no lock; several files per command; truncate and fill; kills and failing writes; two commits in one second; key files of one's own |
| Audit store (`authz-store/src/db.rs`, `migrations.rs`) | an unbounded channel, a writer thread, SQLite tables | open with its migrations, `enqueue_audit`, the writer's loop, reads of board and explain | batches; dropped errors; exits; decisions still in memory; an exit in the middle of a migration; reads in the middle of a batch |
| Identity (`proxy/auth.rs`, `authz-identity/src/cache.rs`) | an in-memory cache with a time to live, a JWKS endpoint elsewhere | `resolve_principal`, JWT verification | stale identities; what the cache key tells apart; key rotation during a fetch |
| Directories (`authz-identity/src/adapters.rs`, `idp.rs`, `authz-cli/src/main.rs`) | one snapshot file, drafts of policies | identity sync and discover, suggest; the normalisation of what each directory answers | two commands on one file; kills; full disks; ids that do not meet; names of groups that become roles |
| Policy language (`authz-policy/src/dsl.rs`, `translate.rs`, `schema.rs`) | none | parse, validate, translate to Cedar | what a rule means when it names several subjects, roles or groups |
| Evaluation (`authz-core/src/evaluate.rs`, `entities.rs`, `request.rs`, `builder.rs`) | none | build entities and context, evaluate, collect evidence | absent attributes, values a request brings under the names of computed ones, deny over allow, two readings of one relationship, texts that break the context |
| Catalog and language bridge (`authz-catalog`, `authz-llm-bridge`) | none | prompt, tool call or retrieval to request | unknown tools; four places that make the request for the same thing |
| Configuration (`proxy/config.rs`, `main.rs`) | none after start | load, environment, validate | the path without a file |
| JSONL audit and suggestions (`authz-suggest`), gateway (`authz-gateway`) | one append-only file | append, read all, suggest | two writers, torn lines, characters cut in two |
| Board, SDK | none | display; wrapper of `evaluate` | - |

How they interact. The command line and the proxy share the policy directory and
the key file; commands share the snapshot, the drafts and the audit file with one
another, and the audit file with the gateway. Handlers share the counters, the hot cache (read
only after start), the identity cache and the audit channel. The audit writer
owns its SQLite connection; readers open their own lock on another one. The LLM,
the identity provider and the connectors are peers that may answer, fail or stay
silent.

What makes each part correct is stated in sections 3 and 4; `PROJECT.json` lists
each hazard at its line, with the properties that would catch it.

## 2. Modules

```
PolicyRules <- PolicyLanguage                 rules, translation, verdict; the parser and the text
PolicyRules <- Queries, Entities, Drafts      requests, entities, drafted rules
PolicyLanguage, Queries, Entities, Drafts <- DecidedQueries <- MCPolicyLanguage
ChatProxy, (INSTANCE Queries) <- ProxyPipeline <- MCChatProxy
PolicyCommands <= PolicyStore <- EngineStart <- MCEngineStart   (refinement, for a lone command)
AuditLog <= AuditStore <- MCAuditStore        (refinement)
ProxyConfig <- IdentityAuth <- MCIdentityAuth
AuditFile, Directories <- Directory <- MCAuditFile     (Directory implements AuditFile)

proofs: ChatProxyProofs (of ProxyPipeline), EngineStartProofs (of PolicyStore, too),
        AuditLogProofs, AuditStoreProofs, IdentityProofs, PolicyLanguageProofs (of DecidedQueries),
        AuditFileProofs <- DirectoryProofs
```
(`<-` is EXTENDS, `<=` is INSTANCE with a refinement mapping.)

**ChatProxy.** One handler per request, `pc[r]` says where it stands. Each action is the code
between two points at which the handler gives way: a metrics lock, an await on a peer.
`listening` says whether the engine has a store whose writer runs: a development proxy may have
none (`engine.rs:59`), and the writer thread panics if it cannot open its connection
(`WriterEnds`, `db.rs:51`); a check goes on without it and drops the result of the send
(`Enqueue`, `engine.rs:133-135`). A query (what the bridge makes of the prompt, or the catalog
of a tool call) is a model value; `Policy[principal][query]` is what `evaluate` says of it
under the bundle the proxy started with: ALLOW, DENY or ERROR. The constant is legitimate
because the proxy never replaces its bundle; ProxyPipeline says where it comes from. `Arrive`
picks route and input (`Asks`: prompts for chat, tools for MCP, messages for A2A and so on);
`Authenticate` is `resolve_principal`; `CountCheck`, `EngineCheck`, `TallyAllow` and
`TallyDeny` are the three parts of a counted check (`routes.rs:73-96`, `183-197`, `227-246`);
`Forward` and `Send` are the upstream call; `NextCall`, `EndOfCalls`, `SkipChoice` and `Finish`
walk through the choices and calls of a reply (`routes.rs:132-200`); `Dispatch` and
`ConnectorReturns` are the connector; `DirectCheck` is MCP and A2A, which evaluate beside
`AuthzEngine::check`; `Disconnect` drops the handler at an await. Counters are unbounded
naturals, bounded by what two requests can do.

**ProxyPipeline** puts a deployed text, a catalog and identities behind those model
values: `RequestOf` is the request that `chat_completions`, `retrieve`, `filter_tool_calls`,
`mcp_tools_call` or `a2a_authorize` makes of a query (operators of Queries), and
`PipelineConstantsOK` says that `Policy` is what the deployed rules decide about it
(`Decide` of PolicyRules), so that the handlers' properties speak of rules and tools.

**PolicyStore.** The five files as variables, and any number of runs of `authz policy commit |
sign | deploy`, each a sequence of one read or one write of one file; `fs::write` is two steps,
truncate and fill. Two writers of one JSON file may leave a mixture (`Garbled`); one that
happens to be JSON again (the end of one signature behind the beginning of another of the same
length) is taken for unreadable, too. A revision is named by its text and the second it was
committed in (the code hashes the Cedar text, the message and the second). A signed bundle is
the revision, text and key it was made with. A command signs with the key file it is told of,
`--key-path` (`path`), which need not be the one the proxy reads (`DefaultPath`). `BreakOff`
ends a command anywhere: it is killed, or an operation on a file fails and `?` ends the
command, before or inside a write; what was truncated stays so, or, where another command
filled it meanwhile, is a mixture (`Mixed`). `mishaps` counts these, and `overlapped` is a
history variable: some file was truncated that another command was about to fill.
**PolicyCommands** is what an operator expects who runs one command after the other: `Commit`,
`Sign` and `Deploy` are one step each, on whole files. `Commands` in PolicyStore is the
mapping: from its first step on, what a command that is alone will leave in the files is taken
to be there (`HeadAfter`, `RevsAfter`, `DeployedAfter`, `KeyAfter`). Files that only `draft`
and `diff` touch are left out.

**EngineStart.** The proxy process beside the commands of PolicyStore: `LoadDeployed`,
`FallBack`, `ServeActive`, `VerifyBundle`, `SkipVerification`, `StopEngine`. `strict` is
production mode or `require_signed_bundle`, chosen anew at each start. `KeyRead` is what the
one path the proxy knows holds (`engine.rs:71`). Bundle and key file are read at different
moments, with commands in between.

**AuditLog** is the promise: decisions are numbered as they are handed over; each
is recorded at most once, in that order and for good, or is lost for good.
**AuditStore** is the code: channel, writer thread, batch, transaction, two
tables, SQLite calls that fail and whose errors are dropped, and process exits. A
process starts by opening the store: `OpenStore` starts the writer before `ReadVersion`,
`MakeTables` and `RecordVersion` bring the tables up to date, and any of them may fail
(`OpenFails`: the proxy ends, or goes on without a store if it serves the development
bundle, `engine.rs:59` against `85-88`). `RecentAudit` is what the board lists, `Explained` what
`/explain` finds. AuditStore implements AuditLog with `log` the rows and `gone` whatever is
neither recorded nor on its way.

**ProxyConfig** is a module of operators: the settings a proxy may start with,
reduced to mode, `require_signed_bundle`, whether there is a shared secret, a JWKS
address and header identity. `StartingConfigs` is what `ProxyConfig::load` and the path
without a file (`proxy/main.rs:36-57`, which skips `validate`) can yield.
**IdentityAuth** is `resolve_principal` with the identity cache and `JwtOidcAdapter`:
`ResolveHeader`, `Hit` and `Miss` are the order in which headers, cache and verification
are tried; `Unverified`, `VerifyHs256`, `Fetch`, `VerifyWithKeys` and `FetchFails` the
verification; `Tick`, `Rotate` and `ServeKeys` are the clock and the identity provider.
A token is a model value with an algorithm, a signing key, an expiry and a cache key
(its first 32 bytes). Between the last await of a verification and the answer there
is only computation, so verification, cache write and answer are one step, in one
second. A key id is not modelled: a token may be refused although its key was
published (`FetchFails`), as one without a key id is when its key is not the first.

**PolicyRules** are the rules themselves: the statements of a rule and the policy they add up
to (`Take`), the schema they are validated against (`Valid`), their translation (`Clauses` is
`translate_one`: a Cedar condition as a set of clauses, each a disjunction of tests of the
context, negated for `unless`), `Context` (`build_context_json`), `Decide` and `Reasons`
(`evaluate`). `Computed` is what the code says of action, resource, subject and principal. A
request may bring values of its own, which are texts and come behind the computed ones but
before the principal's roles and groups (`evaluate.rs:103-121`): of two values of one name the
last counts (`Supplies`), so that one named `resource_kind` or `action_name` takes the place of
what was computed, and one named `subject_groups` or as a flag makes each rule that asks for it
fail, a denying one too (`Evaluates`). Cedar evaluates a condition from left to right and may
stop early: of the tests of the subject it is known which comes first (`first_subject`), as
SELF may hold before DIRECT_REPORTS fails. `Skipped` counts every policy with a test that would
fail as skipped, which only makes `NeverSkipsARule` stronger. A request is `garbled` if one of
its texts holds a line break, which `escape` leaves alone and JSON does not allow.
**PolicyLanguage** follows a policy text to those rules. `ReadHeader`, `ReadStatement` and
`EndOfText` are `parse_dsl`, a line at a time, with the rule under construction in
`current`; `Validate` is `validate_dsl`. A line is the statement the parser makes of it:
spelling, case, comments and the `_GROUP` suffix are gone. The rest of the module reads the
same text a second time, as a reader would: a rule is a header and what follows up to the
next header, whatever the order (`Applies`, `Allowing`, `Denying`).

**Queries** makes requests: `Extraction` and `Bind` are the language bridge, where a prompt is
the set of key words it contains and the resource it spells out, and the first topic that fits
decides; `CallRequest` (whose `arg_mappings` make context values of arguments) and
`RetrievalRequest` are the catalog's, `MessageRequest` is `a2a.rs`, `CheckRequest` and
`PreviewRequest` are `authz check` with arguments and with `--nl`.
**Entities** is `build_entities`: principal, subject, resource, action and groups, with the
parents that relationships and the directory give them.
**Drafts** are the rules that commands draft for a human to commit: of the groups of a directory
(three places that differ in the names they look for) and of what was denied twice. A draft
puts the name of a group between the brackets of a role list, so `Spelled` says what
`parse_list` makes of it.
**DecidedQueries** puts these four together: what can be asked, decided by the text in force.

**AuditFile** is the other audit trail, the JSONL file that the gateway and `authz check`
append to. A decision is its id, the file a sequence of records, newlines and torn pieces.
`Open`, `WriteText` and `WriteNewline` are `append_audit_record`: the file is open for
appending, so each write goes to the end whoever else writes, but `writeln!` writes the record
and the newline one after the other. `TextFails` and the second disjuncts are the errors every
caller drops; `KillGateway` and `KillCommand` end a process between two writes or inside one. A
write that breaks off (`BrokenOff`) leaves a piece of the record, `Torn`, or one whose last
character, which takes several bytes in UTF-8, is incomplete, `Cut`. `Readable` is
`read_audit_records`: it reads the whole file as one text and fails if it is none (`IsText`,
`audit.rs:78`), then skips every line that is not exactly one record (`OnItsLine`); `Suggested`
and `Count` are `suggest_from_audit`, `WriteDraft` writes one of its drafts, `Explained` is
what `authz explain` makes of a line. `saved` and `crowded` are history variables.

**Directories** holds what the adapters make of a directory's answer: `LdapUser`, `LdapGroup`,
`GraphUser`, `GraphGroup`, `CognitoUser`, `CognitoGroup` and the demo (`MockDirectory`), and the
merge of three of them (`Discovered`, which is `discover_all_stores`). A name or an LDAP path is a
sequence of parts (a comma, a prefix, the text between); `FirstPiece` and `TrimStartMatches` are
what `adapters.rs:461` and `501-508` do to it.
**Directory** runs the commands that share the user's files beside AuditFile: `StartSync`,
`Ask`, `IdpDraft`, `Empty`, `Fill`, `GroupDraft` are `identity sync` and `discover`;
`StartSuggest`, `ReadSnapshot`, `CountDenials`, `SuggestGroups`, `SuggestDenial` are `suggest`;
`DecideBeside` is `check`, which stops at a snapshot it cannot read. The snapshot file is
emptied and filled in two steps and goes by the command that wrote it; two at once, or an
error, leave it "mixed" (a mixture that happens to be a snapshot again is taken for one that is
not). `Interrupt` and `Ends` kill a command anywhere. The text of a draft is read by no code,
so writing one is a single step.

Operators under a comment that starts with "Defect" are
variants with a plausible error; no specification uses them. `PROJECT.json`
lists, for every property, a variant under which the property fails.

## 3. Runs

| Run | Instance | Properties and what they show |
|---|---|---|
| `chat_safety` | 2 requests, 5 routes, with and without connectors, 2 principals (one without an id), a text of 5 rules, 3 prompts, 2 retrievals, a message to an agent and 3 tool calls (one of a tool the catalog lacks, one whose arguments break the context), 4 reply shapes; a store that listens, ends, or is not there | `GatedEffects`: nothing reaches the LLM or the connector unless the policy allows it to that principal. `UnstreamedRepliesFiltered`: the call-by-call filter with its early returns delivers exactly the choices with forbidden calls removed. `ExecutedOnceInOrder`: no call reaches the connector twice or out of order. `GarbledCallsEndTheReply`: a call that makes no context costs the whole reply. `MetricsConserved`: counters under separate locks add up, disconnections included. `AuditCoversEffects`: as long as the store listens, no effect and no counted verdict of the engine's routes without its decision in the audit channel. `ComesToRest`: a handler answers or awaits a peer. |
| `chat_stream` (violated) | 1 request | A streamed reply is delivered unfiltered. |
| `chat_unaudited` (violated) | 1 request | MCP and A2A decisions leave no audit entry although the store listens. |
| `policy_engine` | 2 commands, 1 valid and 1 invalid text, 2 keys, 2 seconds, 1 command that breaks off, a proxy started in either mode and stopped | `HeadResolves`, `DeployedIsSigned` of the files; `WholeUnlessBroken`: only a kill or an error leaves an empty file behind, only two commands in one file a garbled one; `ServesWhatWasSigned`: the chain commit, sign, deploy, start never mixes two revisions or two keys; `ServesValidText`: no mode serves a text the validator refuses. |
| `engine_verified` (violated) | 2 commands, 2 key files | A bundle that does not verify under the key file is served. |
| `engine_reload` (violated) | 1 command, fair | A deployed revision never reaches a running proxy. |
| `audit_store` | batches of 2, 5 decisions, a board of 2 rows, 2 failing calls, 2 exits, fair writer | `KeepsThePromise`: every step is a step of AuditLog. `RowsHaveEvidence`, `NothingLostQuietly`: what batching alone may not do. `BoardKeepsItsRows`: who looks again finds what was there, or newer rows only. `StartsWithItsTables`: no exit in the middle of a migration keeps a later process from starting. `EventuallySettled`: each decision is recorded or, after a failure, given up. |
| `identity` | 2 handlers, 3 tokens (two with one cache key, one under the shared secret), 1 provider key rotated once, 4 seconds, production and development settings, fair handlers | `BoundedAfterlife`: an identity outlives its token and key by a bounded time, whatever races. `OwnOrSameKey`: whose identity one gets. `ProductionIsClosed`: no combination of file and environment opens what production closes. `Resolved`: every request gets its outcome. |
| `identity_invalid` (violated) | same | A token that does not verify is answered from the cache entry of another with the same first 32 bytes. |
| `policy_language` | every text of up to 5 lines out of 15, 14 requests built by hand (5 with values of their own), 2 people with 7 prompts, 6 calls and 2 collections, 3 groups with and without a usable name | `MeansWhatItSays`: parser, translation and evaluation together allow a request that brings no values for what rules read exactly if some rule of the text allows it and none denies it, and any request only if some rule allows its action to its principal's roles. `AcceptsTheWellFormed`: which texts are accepted. `NeverSkipsARule`: no rule is lost unless the request brings a text in the place of a flag or a list. `EvidenceAsWritten`: the evidence names the rules that decided. `SchemaBounds`: what has no action of the schema is denied under every text. `UnknownToolsNeedTheirOwnRule`: no ordinary rule lets a tool through that the catalog lacks. `WaysAgree`: prompt, tool call, retrieval and `authz check` meet one verdict. `EntitiesAgree`: context and entities say the same. `DraftsGrantOnlySelf`: what committing a draft may add. |
| `audit_file` | 3 decisions and one of an older version, 3 commands, 3 of these 6 started in one behaviour, 1 failing append, 1 failing or killed command, 1 kill of a gateway or check; sources local, ad and all | `ReadUnlessCrowded`: an append that succeeds and meets no other can be read by everybody, as long as no append broke off inside a character. `SettledStays`: nothing else makes a record unreadable that has a line to itself. `SuggestionsEarned`: no deny policy is suggested that was not denied twice. `ReadsTheLastSync`, `DraftsOfSavedDirectories`: whose directory a snapshot and a draft are of. `IdentitiesMerge`: merging loses and doubles nobody, and everybody is as the first to know them has it. |
| `audit_explain` (violated) | same, without failures or commands | A record in the file cannot be explained by `authz explain`. |

Types are checked by `TypeOK` in `chat_safety` and `audit_store` and `DirTypeOK` in
`audit_file`; for the policy store, the identities and the parser they are a part of the proofs.

Bounds, and why they are enough.
- *ChatProxy.* Handlers meet in the counters, the audit set and the sets of
  effects only; two of them give every interleaving of any two accesses. The
  replies hold a repeated call, a call that fails after one that was executed, two
  choices in either order, a choice without calls and an empty one. The text allows some of
  the queries on each route, denies one by a rule and others for want of one.
- *PolicyStore, EngineStart.* The properties relate at most two commands and a
  reader; two seconds give two revisions of one text, and a re-commit of the
  same revision within one second; the invalid text plays the second text where
  the text under edit differs from the committed one. One command breaks off at any point; later
  commands meet what it left. A second key file matters to `VerifiedBeforeServing` only, and is
  in that run; the proofs are for any set of them.
- *AuditStore.* A batch of 2 is full, not full or followed by another; 5 decisions
  make three batches. Two faults can hit both statements of one decision, BEGIN
  and a later INSERT, or two commits; two exits allow a loss after a recovery, and two
  migrations that break off at different tables. A board of 2 rows is pushed out by one batch.
- *IdentityAuth.* The hazards are between two handlers and one cache entry: two tokens
  with one cache key, and a third whose key is rotated while a fetch is under way. Four
  seconds exceed time to live plus leeway, so that entries and tokens expire in every order.
- *PolicyLanguage.* Five lines are a header and four statements, or two rules with up to three
  statements between them: enough for every pair of kinds of statement in one rule, for
  what one rule could leak into the next, and for a permit against a denial. The catalog has a
  tool with two entries, one mapped to an action outside the schema, and a collection that is
  of another kind than it is called. A group is named after a role, after two roles (a comma) or
  after none.
- *AuditFile.* Records meet in pairs: two appends that interleave, or one and the open line
  an earlier one left; a third comes before or after. One failure or kill leaves one open line,
  or one cut character, after which the file is read no more.
- *Directory.* Two syncs meet in one snapshot and a third command reads it; `MaxWork` is what is
  started in one behaviour, decisions and commands alike. Commands are interchangeable
  (`SYMMETRY`; no liveness is checked there). `entra` and `cognito` differ from
  `ad` in the name of a draft only, and `ldap` from `local` in that it always answers, so
  that one of each is asked. The answers of directories are one user and one group per
  source, in every combination of what an entry may have or lack.

Fairness. `chat_safety` assumes weak fairness of each handler's own steps (tokio
polls every task that is ready) and none of a peer's: the upstream client has
no timeout, so that the LLM may never answer. `audit_store` assumes weak fairness
of the writer thread, which blocks only on an empty channel. `engine_reload` assumes
that a proxy that is starting goes on.
`identity` assumes weak fairness of each handler's steps, `FetchFails` among them:
the JWKS client, unlike the upstream one, has a limit of ten seconds (`adapters.rs:155`).
Deadlock is checked wherever the instance cannot simply run out of decisions
or requests.

## 4. Proofs

Every invariant and every action property that a passing run checks is also stated by a
theorem, for every value of the constants. Theorems about invariants read `Spec => []P`
(`EngineSpec`, `DirSpec` where the table says so).

| Theorem | Module | Statement |
|---|---|---|
| `Invariance`, `TypeCorrect` | ChatProxyProofs | the inductive invariant, and `TypeOK` |
| `OnlyAllowedEffects`, `EveryEffectHasItsRule` | ChatProxyProofs | `GatedEffects`; and end to end, `EffectsHaveRules`: each effect is permitted by a rule of the deployed text and forbidden by none |
| `ExecutedInTurn`, `FilterIsExact`, `GarbledCallsAreFatal` | ChatProxyProofs | `ExecutedOnceInOrder`, `UnstreamedRepliesFiltered`, `GarbledCallsEndTheReply` |
| `CountersAddUp`, `EvidenceComesFirst` | ChatProxyProofs | `MetricsConserved`, `AuditCoversEffects` |
| `OnlyDirectRoutesUnaudited` | ChatProxyProofs | `EngineRoutesAudited`: as long as the store listens, the verdict of a chat, a retrieval or a check is in the audit channel from the moment there is one |
| `StoreInvariance`, `HeadAlwaysResolves`, `DeployedAlwaysSigned` | EngineStartProofs | the inductive invariant of the policy directory, and the two parts of it a reader cares about |
| `TornOnlyByMishaps` | EngineStartProofs | `WholeUnlessBroken` |
| `LoneCommandsAreAtomic` | EngineStartProofs | `Spec => Commands!Spec`, if there is one command at a time and none breaks off: PolicyStore implements PolicyCommands |
| `OnlySignedServed`, `OnlyValidTextServed` | EngineStartProofs | `EngineSpec`: `ServesWhatWasSigned`, `ServesValidText` |
| `OneCommandVerifies` | EngineStartProofs | `EngineSpec => []VerifiedBeforeServing`, if there is one command at a time, whole or broken off, and all of them use the key file the proxy reads |
| `History`, `Lasting` | AuditLogProofs | what the promise of the audit log amounts to |
| `PromiseIsKept`, `RowsAreAHistory` | AuditStoreProofs | `Spec => KeepsThePromise`: AuditStore implements AuditLog; and so its rows are in order |
| `TypeCorrect`, `RowsAlwaysHaveEvidence`, `NeverLostQuietly`, `AlwaysStartsWithTables` | AuditStoreProofs | `TypeOK`, `RowsHaveEvidence`, `NothingLostQuietly`, `StartsWithItsTables` |
| `BoardNeverGoesBack` | AuditStoreProofs | `Spec => BoardKeepsItsRows` |
| `AfterlifeBounded`, `CacheIsSound` | IdentityProofs | `BoundedAfterlife`, `CacheSound` |
| `OwnIdentityOrSameKey`, `ProductionStaysClosed` | IdentityProofs | `OwnOrSameKey`, `ProductionIsClosed` |
| `WholeKeysRefuseInvalidTokens` | IdentityProofs | `Spec => []InvalidTokenRefused`, if no two tokens share a cache key |
| `TypeCorrect`, `BuiltAsWritten` | PolicyLanguageProofs | `TypeOK`, and the inductive invariant of the parser |
| `AcceptedAsWritten`, `VerdictAsWritten`, `EvidenceFollowsTheText` | PolicyLanguageProofs | `AcceptsTheWellFormed`, `MeansWhatItSays`, `EvidenceAsWritten` |
| `NothingSkipped`, `OnlySchemaActions`, `UnknownToolsAreNamed` | PolicyLanguageProofs | `NeverSkipsARule`, `SchemaBounds`, `UnknownToolsNeedTheirOwnRule` |
| `AllWaysAgree`, from `RetrievalAgrees`, `CallsAgree`, `PreviewsForetell`; `EntitiesAlwaysAgree` | PolicyLanguageProofs | `WaysAgree`; `EntitiesAgree` |
| `DraftsAreHarmless` | PolicyLanguageProofs | `DraftsGrantOnlySelf` |
| `AloneIsRead`, `SettledForever`, `SuggestionsAreEarned`, `FileTypes` | AuditFileProofs | `ReadUnlessCrowded`, `Spec => SettledStays`, `SuggestionsEarned`, `TypeOK` |
| `DirectoryImplementsFile`, `FileBesideCommands` | DirectoryProofs | `DirSpec => Spec`, so what holds of the audit file holds beside the commands |
| `TheLastSyncIsRead`, `DraftsAreOfSavedDirectories`, `DirectoryTypes`, `IdentitiesAlwaysMerge` | DirectoryProofs | `DirSpec`: `ReadsTheLastSync`, `DraftsOfSavedDirectories`, `DirTypeOK`, `IdentitiesMerge` |

Assumptions are those the modules declare (`ConstantsOK`, `PipelineConstantsOK`,
`StoreConstantsOK`, `EngineConstantsOK`, `AuditConstantsOK`, `IdentityConstantsOK`,
`LanguageConstantsOK`, `QueriesOK`, `DraftsConstantsOK`, `FileConstantsOK`,
`DirectoriesConstantsOK`, `DirectoryConstantsOK` and their like), which TLC evaluates on every run.
They say what the constants are, that sets whose size is counted are finite, and that
placeholders differ from what they stand beside (an emptied file from a mixed one, say).
Three theorems assume more, and say so in their statements: `LoneCommandsAreAtomic`,
`OneCommandVerifies` and `WholeKeysRefuseInvalidTokens`. Their assumptions are not what the
code guarantees but what it would take: with `OnlyDirectRoutesUnaudited` they show how far
the disagreements of section 5 reach, and what removing their cause would give.

*ChatProxy.* `GatedEffects` is not inductive: that a request in the list of sent
ones was allowed says nothing of the one about to be sent. `HandlerInv` adds what
each handler knows where it stands: before the filter runs, the query under check
is the request's own; at `tally` the verdict is the policy's for the query under check;
at the upstream call the prompt was allowed; at the connector the call was. Types
carry the rest: the LLM's choices are sequences of tools, so the query taken from one
is a tool.

`DeedsInv` is what each handler has done by where it stands. `FilterInv`: the choices before
the one the filter is at are delivered, and of that one the calls before the current one are
sieved. That a list is another without its forbidden calls is said without recursion: the n-th
permitted call is the n-th of the list (`Stripped`, with `Rank` counting), and one call more
makes one more or none (`RankGrows`). `ExecInv` and `AuditInv`: whatever was executed or
audited was earlier than the call the filter is at, so that the next is new, and a verdict
about to be acted on is in the audit channel, if the store listens (`Evidenced`; it never
listens again, so that what was enqueued under that condition was enqueued). `LedgerInv`
relates the counters to cardinalities: checks are allows, denies and the handlers in between; a
verdict that was audited is counted or held by a handler at `tally`. Counters of two locks
agree only in this sum. `EveryEffectHasItsRule` joins `GatedEffects` to the theorems about the
language: behind the model value of a policy stands `Decide` (`PipelineConstantsOK`), behind an
ALLOW a rule (`AllowedByARule`); an argument that the catalog maps to `resource_kind` lets the
rule be one about another kind of resource. `OnlyDirectRoutesUnaudited` needs that only two
steps make verdicts (`VerdictSteps`), and that what is in the audit channel stays there.

*PolicyStore.* `HeadResolves` needs that a command that is about to write HEAD works on a
revision whose file exists, and that files are never removed. `DeployedIsSigned` needs
`WellFormed` of whatever a file or a command holds: it is named by its text, and its signature,
if it has one, covers that name and text. That two commands share a revision's file is no
danger, since whatever either of them writes is well formed. `WholeUnlessBroken` is kept step
by step: who truncates a file is about to fill it, and only who is about to fill it can leave
that place (`Writers`); and while nobody truncated a file that another was about to fill, there
is one such command for each file, and the file is empty until then (`FillInv`).

`LoneCommandsAreAtomic` is a refinement whose commands take effect with their first step: it
reads the text and the second, draws the key or looks at HEAD, and nobody can change any of it
before the last write. `SoloInv` says that the only file that is not whole is the one the
command is at, that no file is garbled, and that the revision being signed or deployed is the
one HEAD names. The first step of a command is then `Commit`, `Sign` or `Deploy` of
PolicyCommands (a stutter for an unsigned revision), and every other one leaves what is seen as
it was (`CommandOrStutter`). A command that breaks off after a truncation, or a second one
beside it, breaks the refinement: TLC finds both.

*EngineStart.* The proof adds `KeysInv` (a signature is by a key the command line made) and
`HotInv` (what the proxy loaded is signed as it stands; only a development proxy takes the
fallback) to the invariant of PolicyStore, whose steps it reuses. `ValidInv` says of the bundle
in the proxy's memory that the validator accepts it, from the moment it is loaded, whatever
happens to the files meanwhile. `OneCommandVerifies` adds `OneKeyInv`: every signature there
is, in a file or in a command's hands, is by the key of the key file, because while that file
is missing or half written nothing is signed (`NoneWithoutKey`); a command that breaks off
there leaves a directory in which nobody can sign again.

*AuditLog.* `Frontier`: everything recorded is at most the number handed over, recorded
numbers increase, and a pending number below the last recorded one does not exist;
the order of the rows follows.

*AuditStore.* A decision moves from the channel to the batch, the transaction and the rows.
`Ordered`: each of the four is in order, and none holds a decision older than one further on.
`Phases`: where the writer thread is says what it holds. `Migrated`: the tables are made before
their number is recorded, so that only a failed call lets a process start on less. `Paired`:
without failing calls every batch is written inside a transaction, whose evidence belongs to
its rows but for the decision between its two statements; this is what an exit at that point
needs. `NothingLostQuietly` is inductive beside these. For the refinement, a step that hands a
decision over is `Send` of AuditLog; a row that is inserted outside a transaction, or a commit,
is `Record`, of one decision or of a whole batch; every other step leaves the rows alone and is
`Lose` (`QuietStepsLose`), of what an exit, a failed insert or a roll-back takes away or of
nothing.

*IdentityAuth.* `BoundedAfterlife` speaks of answers; an answer may come from the cache, so
`CacheSound` says the same of entries, without the time to live: an entry was good in the
second it was made. That takes `KeysOnTheirWay`: a key on its way to a handler was still
published when the handler asked. `ClockInv` (no key was published in the future) and
`HandlerInv` (where a handler stands, what it holds) carry the steps. Every step but the
clock's and the provider's is one of four shapes: quiet, a plain answer, an answer from the
cache, an answer that is cached; each shape has its lemma. `OwnOrSameKey` follows from
`CacheSound`, which says that an entry lies under the cache key of its own token, and from
`OutcomeInv`: a handler has an outcome only once it is done; and from it
`WholeKeysRefuseInvalidTokens`, since the token with the same cache key is then one's own.
`ProductionIsClosed` is a fact about `ApplyEnv`: it closes what production closes after file
and environment.

*PolicyLanguage.* `NeverSkipsARule` needs no induction: every test of the translation can be
evaluated in every context, unless the request supplies a text where it asks for a flag or a
list (`TestsEvaluate`), and roles are what they are whatever it supplies (`ContextIs`).
`TypeCorrect` carries the parser: what `Finished` tests is what makes a partial policy a
policy. `SchemaBounds` rests on `Approved`, that what is in force passed `Valid`, and on that a
rule only matches its own action.

That the parser builds what the lines say is an induction over the text, which the steps of the
model are: `TextInv` speaks of the lines read so far. The k-th header has the k-th policy of
`Built`, the finished ones and the one under construction (`Place`, `RulesBuilt`), and that
policy says what the lines from its header to the next one say (`Agrees`): the roles, subjects
and groups of all of them, the effect of the last effect line. The parser keeps this with a
header, which starts a policy and finishes one (`ANewRule`), and with a statement, which
concerns the last policy only (`MoreOfARule`, `RulesStay`); once it refuses, the text is not
well-formed. `SatisfiedMeans` is the other half, translation and evaluation: the clauses of a
policy hold of a request that brings nothing exactly if roles, subject and groups are as the
policy says; of any other, roles still decide (`RolesDecide`). Both together give
`MatchingAsWritten`, and from it verdict and evidence.

*Queries, Drafts, Entities.* `AllWaysAgree` compares requests, not texts: two that differ only
in the id of the resource and in the groups of the principal, which no condition asks for, are
decided alike by whatever rules, if no argument takes the place of what was computed
(`SameAsideSameVerdict`); each of the three theorems then shows that two of the ways lead to
such requests. `DraftsAreHarmless`: a text allows behind another what that one does not only by
a permit of its own (`AddedText`), and of all rules a draft may hold, the one about one's own
profile is the only permit (`DraftsPermitOneself`). `UnknownToolsAreNamed` follows from
`TextInv`: a permit that matches is that of a rule, whose last effect line names its kind.
`EntitiesAlwaysAgree` needs no induction.

*AuditFile.* `ReadUnlessCrowded` is about finished appends; `HalfwayInv` carries it through the
middle of one: whoever is between record and newline and met nobody is the only one there, and
its record is the last thing in the file with its line to itself. `SettledForever` needs only
that every step appends at most one token, and that a file which is text was text before.
`SuggestionsEarned` needs that each decision of this version is in the file at most once
(`Once`), so that two lines are two decisions, whichever lines can be read, and that what is
`due` was earned when it was counted.

*Directory.* Every step is a step of AuditFile or leaves its variables alone
(`EveryStepIsOfTheFile`). `SnapInv`: the command that opened the snapshot last is the only one
that fills it, or is among those that overlapped. `DraftInv` carries what a command has
read, which was saved by the command it goes by, to the draft it writes. `IdentitiesAlwaysMerge` is
about lists of any length: the map of the merge is a recursive function, and both that there is one
(`ThereIsAMap`) and that it holds the first of each id (`FirstsAreMerged`) are shown
with a least counterexample, since an induction theorem cannot be instantiated here.

Only model-checked: liveness, which is out of reach of the prover (`ComesToRest`,
`EventuallySettled`, `Resolved`), and the six properties of section 5, which do not hold.

## 5. Where code and documents disagree

Each has a run that exhibits it and an entry under `findings` in `PROJECT.json`.
1. Streamed replies are not filtered (`proxy/routes.rs:105-119`), docs/OPENFGA_COMPARISON.md:33
says they are.
2. MCP and A2A decisions are not audited (`routes.rs:285`, `315`), docs/PRODUCT_OVERVIEW.md:34
   says every decision is. No other route is concerned while the store listens
   (`OnlyDirectRoutesUnaudited`).
3. A signature that does not verify is accepted, because only the `Err` of `verify_bundle` is
   looked at (`engine.rs:74`), docs/SECURITY.md:55. A `policy sign --key-path` with another
   file than the one the proxy reads (`engine.rs:71`) is enough, as are two first runs side by
   side; if only the commands write these files, nothing else is (`OneCommandVerifies`).
4. A deployed revision waits for a restart (`engine.rs:105`), docs/PRODUCT_OVERVIEW.md:125.
5. An invalid token is accepted after a valid one with the same first 32 bytes
   (`proxy/auth.rs:18`), tests/regression_suite.rs:162 expects a 401. The cut is the only
   reason (`WholeKeysRefuseInvalidTokens`).
6. `authz explain` fails on every record (`authz-cli/src/main.rs:638`), because it parses the
   line as a bare decision; authz-suggest/src/audit.rs:26 says the record holds the evidence for it.

Seen while modelling, without a run:
- `upstream.timeout_secs` (docs/DEPLOYMENT.md:40) is read by no code.
- The reply to a `tool_calls` field that is null or empty gets the text "PAAC blocked all tool
  calls for this turn." in place of its content (`routes.rs:138-146`; `Rewrite` of ChatProxy).
- A line `or subject in X_GROUP` narrows its rule, because subjects and groups of a rule are
  joined with AND (`translate.rs:50-71`); docs/POLICY_GUIDE.md:37 reads `or` as a widening,
  of subjects only.
- The literal ids that `dsl.rs:20` lists among the subjects never pass validation, because the
  schema has no `subject_id` (`schema.rs:27-36`; `Valid` of PolicyLanguage).
- Two appends to the audit file at the same time may leave both records on one line, which
  every reader skips (`audit.rs:64`; `crowded` of AuditFile). A write that is cut inside a
  character of several bytes makes every reader fail on the whole file from then on
  (`audit.rs:78`; `IsText`).
- A request to `/v1/check` or to the gateway, and a call whose arguments the catalog maps
  (`arg_mappings`), may bring context values named as the computed ones, which they take the
  place of (`evaluate.rs:103-105`): the condition on the kind or action then reads the value,
  and a rule that asks for `subject_groups` or a flag is skipped, a denying one too.
  `MeansWhatItSays` says what holds of such a request; roles cannot be brought.
- A check that finds no store, or one whose writer thread has ended, goes on and records
  nothing (`engine.rs:133-134`, `db.rs:51`; `listening`).
- An error of `fs::write` (a full disk) leaves an empty revision, `HEAD`, deployed revision
  or key file behind, as a kill does (`store.rs:92-93`, `105`, `119`, `main.rs:494`; `BreakOff`).
- A2A_SEND is no action of the schema, so that every message between agents is denied under
  every text (`a2a.rs:46`, `SchemaBounds`); after two such denials `authz suggest` drafts
  `deny A2A_SEND ...`, which `policy commit` refuses.
- Tool calls, retrievals, messages and prompts other than those about the CEO and alice have no
  subject, so that no rule with a `where` line is ever about them; "my profile" is one of them.
- The bridge supplies the `direct_reports` edge for prompts about the CEO and about alice by itself
  (`extract.rs`, `lib.rs:58-69`). A prompt it does not recognise is READ GENERAL_CHAT,
  which the shipped text does not allow, while `authz check --nl` rejects it.
- The shipped catalog gives `db.hr.travel_expenses` the kind TRAVEL_EXPENSE and the tool
  `sql_query` the kind DB_TABLE, so that prompt and call for that table are decided by different
  rules (the condition of `PromptAndCallAgree`). `authz check` knows neither the catalog
  nor the groups of the principal.
- Of two entries with one tool name the first counts. Only `authz catalog` validates a catalog;
  the proxy starts with an empty one if it cannot read its file.
- A line break in an utterance or an argument makes the context unreadable and the whole
  request fails (`evaluate.rs:125`); a backslash in a role, group or attribute ends the request in a
  panic (`entities.rs:23`).
- `group_members` and the entities are read by no translated rule: a snapshot given to
  `authz check` never changes a verdict, but a broken one stops the command.
- Drafts take the name of a group for that of a role (HR, not HR_HEAD). A comma in it makes several
  roles of it, and an empty one leaves the rule without roles (`DraftsGrantOnlySelf`).
- A Cognito attribute that is there but empty gives an empty role. The members of an LDAP group
  are named by what stands before the first comma of their paths, a comma inside a name
  included, less `uid=` and `cn=` in lower case; users by their uid, or else by their whole path. So
  users without a uid never meet themselves as members, nor do `CN=` members, as Active
  Directory writes them. No property says that they meet: its conditions would be those of the code.
- `discover` leaves out a directory that fails without a word and keeps the relationships of
  Active Directory only. The demo lists a member, employee:CEO, who is nobody's user.
- The draft of an identity provider is written before its snapshot, and so may be of a directory
  that was never saved; a slow `suggest` may write drafts of an older directory over those of a
  newer one (`DraftsOfSavedDirectories` says what does hold).
- A store that does not open ends the start of a proxy with a deployed bundle and is dropped
  without a word, and with it all audit, beside the development bundle
  (`engine.rs:59`, `85-91`). A failing version query on a migrated database makes open fail on the
  key of the migration (`db.rs:113`).

## 6. Not modelled

- the parser of PolicyLanguage inside EngineStart: there the texts the validator refuses are a
  set of constants, and `ServesValidText` says no more than that a served text is not one of
  them. That a text which is accepted decides as it reads is a theorem of PolicyLanguage, for
  every text;
- the board and the SDK, which keep no state, and the commands that only print (policy test,
  validate and diff, catalog validate);
- `Saml2Adapter::parse_assertion` and `HybridExtractor`, which only their tests call,
  and the data of `MockLdapDirectory`;
- what Cedar's parser makes of an attribute (the panic above), attributes that no translated
  rule reads and values a request brings under such names, departments, sensitivities and
  confidence;
- the bytes of a file: which mixtures of two texts are JSON again, and where a cut falls but for
  inside a character or not;
- the `policy_revisions`, `identity_cache` and catalog tables of the audit store, which nothing
  reads;
- bounds on memory: the audit channel and the identity cache have none;
- the wording of messages, the HTTP layer, and hashing and signatures as mathematics (a signature is
  the triple it was made of).
