----------------------------- MODULE FrontEnds -----------------------------
(***************************************************************************)
(* The same service behind REST (rest.rs) and gRPC (grpc.rs); the command  *)
(* line speaks gRPC (vecvec-cli).  A client wants something done: each     *)
(* front end turns its request into a call of the service, or refuses it,  *)
(* and turns the outcome into a status.  Calls are answered one at a time. *)
(***************************************************************************)
EXTENDS Integers, Sequences, FiniteSets, SequencesExt

CONSTANTS Names, Labels, Nil, MaxPoints, MaxVersions

ASSUME FrontEndsAssumption ==
  {MaxPoints, MaxVersions} \subseteq Nat /\ Nil \notin Nat /\ Nil \notin Labels

VARIABLE collections   \* name -> what the service answers from, or Nil

Dims == {0, 1, 2}
Ids  == 0 .. MaxPoints - 1
VersionIds == 0 .. MaxVersions - 1

FrontEndsInit == collections = [n \in Names |-> Nil]

-----------------------------------------------------------------------------
(***************************************************************************)
(* The service.  "rows" are the ids whose vectors are at hand, dead ones   *)
(* among them; a version holds its rows and its live ids.                  *)
(***************************************************************************)
NewCollection(dim) ==
  [dim |-> dim, ids |-> 0, rows |-> {}, live |-> {}, versions |-> <<>>,
   tags |-> [l \in Labels |-> Nil], branches |-> [l \in Labels |-> Nil]]

HasVersion(c, v) == v + 1 \in DOMAIN c.versions

Resolved(c, at) ==
  CASE at.kind = "version" -> IF HasVersion(c, at.of) THEN at.of ELSE Nil
    [] at.kind = "tag"     -> c.tags[at.of]
    [] at.kind = "branch"  -> c.branches[at.of]

(* An answer: what becomes of the collection, the outcome and the data.    *)
Fails(c, why)    == [collection |-> c, outcome |-> why, data |-> Nil]
Gives(c, data)   == [collection |-> c, outcome |-> "ok", data |-> data]

ReadAt(c, at) ==
  IF at = Nil THEN Gives(c, c.live)
  ELSE IF Resolved(c, at) = Nil THEN Fails(c, "Version")
  ELSE Gives(c, c.versions[Resolved(c, at) + 1].live)

Committed(c, tag) ==
  LET v == Len(c.versions) IN
  [c EXCEPT !.versions = Append(@, [rows |-> c.rows, live |-> c.live]),
            !.tags = IF tag = Nil THEN @ ELSE [@ EXCEPT ![tag] = v]]

(* All dimensions are checked before anything is written.                  *)
Written(c, dims, deletes) ==
  LET new == c.ids .. c.ids + Len(dims) - 1 IN
  [c EXCEPT !.ids = @ + Len(dims), !.rows = @ \cup new,
            !.live = (@ \ deletes) \cup new]

WriteBatch(c, call) ==
  IF \E i \in DOMAIN call.dims : call.dims[i] # c.dim THEN Fails(c, "DimensionMismatch")
  ELSE LET w == Written(c, call.dims, call.deletes) IN
       Gives(IF call.commit THEN Committed(w, call.tag) ELSE w,
             <<c.ids, Cardinality(call.deletes \cap c.live)>>)

ServeExisting(c, call) ==
  CASE call.op = "create"  -> Fails(c, "AlreadyExists")
    [] call.op = "batch"   -> WriteBatch(c, call)
    [] call.op = "delete"  -> Gives([c EXCEPT !.live = @ \ {call.id}], call.id \in c.live)
    [] call.op = "query"   -> IF call.dim # c.dim THEN Fails(c, "DimensionMismatch")
                              ELSE ReadAt(c, call.at)
    [] call.op = "scroll"  -> ReadAt(c, call.at)
    [] call.op = "recommend" ->
         (* deleted examples still have their vectors *)
         IF call.example \notin c.rows THEN Fails(c, "Version")
         ELSE Gives(c, c.live \ {call.example})
    [] call.op = "point"   -> IF call.id \in c.live THEN Gives(c, call.id)
                              ELSE Fails(c, "NoSuchPoint")
    [] call.op = "commit"  -> Gives(Committed(c, call.tag), Len(c.versions))
    [] call.op = "restore" ->
         IF ~HasVersion(c, call.version) THEN Fails(c, "Version")
         ELSE LET old == c.versions[call.version + 1]
                  r == [c EXCEPT !.rows = old.rows, !.live = old.live] IN
              Gives(Committed(r, Nil), Len(c.versions))
    [] call.op = "tag"     -> IF ~HasVersion(c, call.version) THEN Fails(c, "Version")
                              ELSE Gives([c EXCEPT !.tags[call.label] = call.version], Nil)
    [] call.op = "branch"  -> IF ~HasVersion(c, call.version) THEN Fails(c, "Version")
                              ELSE Gives([c EXCEPT !.branches[call.label] = call.version], Nil)
    [] call.op = "diff"    ->
         IF ~HasVersion(c, call.from) \/ ~HasVersion(c, call.to) THEN Fails(c, "Version")
         ELSE LET from == c.versions[call.from + 1].live
                  to   == c.versions[call.to + 1].live IN
              Gives(c, <<to \ from, from \ to>>)
    [] call.op = "versions" -> Gives(c, Len(c.versions))
    [] call.op = "stats"   -> Gives(c, <<c.dim, Cardinality(c.live), Len(c.versions)>>)
    [] call.op = "drop"    -> Gives(Nil, Nil)

Serve(c, call) ==
  IF call.op = "create" /\ call.dim = 0 THEN Fails(c, "DimensionMismatch")
  ELSE IF c # Nil THEN ServeExisting(c, call)
  ELSE IF call.op = "create" THEN Gives(NewCollection(call.dim), Nil)
  ELSE Fails(c, "NotFound")

-----------------------------------------------------------------------------
(***************************************************************************)
(* REST.  A selector is three optional fields, the version first.  A body  *)
(* with a field that is not what it should be is refused with 422 before   *)
(* the handler runs; one that is no JSON at all (400) is not modelled.     *)
(***************************************************************************)
RestStatus(outcome) ==
  CASE outcome = "ok" -> 200
    [] outcome \in {"NotFound", "Version", "NoSuchPoint"} -> 404
    [] outcome = "AlreadyExists" -> 409
    [] outcome = "DimensionMismatch" -> 400
    [] OTHER -> 500

AtFields(at) == [kind \in {"version", "tag", "branch"} |->
                   IF at # Nil /\ at.kind = kind THEN at.of ELSE Nil]

(* Faulty variant: a branch is looked for among the tags.                  *)
RestSelectorTagsOnly(fields) ==
  IF fields["version"] # Nil THEN [kind |-> "version", of |-> fields["version"]]
  ELSE IF fields["tag"] # Nil THEN [kind |-> "tag", of |-> fields["tag"]]
  ELSE IF fields["branch"] # Nil THEN [kind |-> "tag", of |-> fields["branch"]]
  ELSE Nil

RestSelector(fields) ==
  IF fields["version"] # Nil THEN [kind |-> "version", of |-> fields["version"]]
  ELSE IF fields["tag"] # Nil THEN [kind |-> "tag", of |-> fields["tag"]]
  ELSE IF fields["branch"] # Nil THEN [kind |-> "branch", of |-> fields["branch"]]
  ELSE Nil

Refused(c, status)  == [collection |-> c, status |-> status, data |-> Nil]
Told(answer, status) == [collection |-> answer.collection, status |-> status,
                         data |-> answer.data]

Batch(points, deletes, commit, tag) ==
  [op |-> "batch", dims |-> points, deletes |-> deletes, commit |-> commit, tag |-> tag]

RestCall(want) ==
  CASE want.op = "upsert" -> Batch(FlattenSeq(want.messages), {}, FALSE, Nil)
    [] want.op \in {"query", "scroll"} -> [want EXCEPT !.at = RestSelector(AtFields(want.at))]
    [] OTHER -> want

(* Both front ends look the metric up by name.                             *)
UnknownMetric(want) ==
  want.op = "create" /\ want.metric \notin {"cosine", "dot", "euclidean"}

Rest(c, want) ==
  IF UnknownMetric(want) THEN Refused(c, 400)
  ELSE IF ~want.parses THEN Refused(c, 422)
  ELSE LET answer == Serve(c, RestCall(want)) IN Told(answer, RestStatus(answer.outcome))

-----------------------------------------------------------------------------
(***************************************************************************)
(* gRPC.  Points come in a stream of messages; the first name given is the *)
(* collection's and nothing is written before the stream has ended.        *)
(***************************************************************************)
GrpcStatus(outcome) ==
  CASE outcome = "ok" -> "ok"
    [] outcome \in {"NotFound", "Version"} -> "not_found"
    [] outcome = "AlreadyExists" -> "already_exists"
    [] outcome = "DimensionMismatch" -> "invalid_argument"
    [] OTHER -> "internal"

GrpcCall(want) ==
  IF want.op = "upsert" THEN Batch(FlattenSeq(want.messages), {}, FALSE, Nil) ELSE want

Grpc(c, want) ==
  IF \/ UnknownMetric(want)
     \/ want.op = "create" /\ want.dim = 0
     \/ want.op = "upsert" /\ want.messages = <<>>
     \/ ~want.parses
  THEN Refused(c, "invalid_argument")
  ELSE LET answer == Serve(c, GrpcCall(want)) IN Told(answer, GrpcStatus(answer.outcome))

(* The commands that reach the server, as what they ask of it over gRPC:   *)
(* one message, and queries of now without a filter.                       *)
Cli(command) ==
  CASE command.op = "upsert" -> [command EXCEPT !.messages = <<FlattenSeq(@)>>]
    [] command.op = "query"  -> [command EXCEPT !.at = Nil]
    [] OTHER -> command

CliOps == {"create", "upsert", "batch", "query", "commit", "versions"}

-----------------------------------------------------------------------------
(***************************************************************************)
(* What a client may want.  "parses" is FALSE for a payload or a filter    *)
(* that is not what it should be.                                          *)
(***************************************************************************)
Ats == {Nil} \cup [kind : {"version"}, of : VersionIds]
              \cup [kind : {"tag", "branch"}, of : Labels]

Messages == {<<>>, <<<<1>>>>, <<<<1>>, <<1>>>>, <<<<1>>, <<2>>>>, <<<<>>, <<2>>>>}

BothWants ==
  [op : {"create"}, dim : Dims, metric : {"cosine", "unspecified"}, parses : {TRUE}]
    \cup [op : {"upsert"}, messages : Messages, parses : BOOLEAN]
    \cup [op : {"query"}, dim : {1, 2}, at : Ats, parses : BOOLEAN]
    \cup [op : {"recommend"}, example : Ids, parses : BOOLEAN]
    \cup [op : {"commit"}, tag : Labels \cup {Nil}, parses : {TRUE}]
    \cup [op : {"tag", "branch"}, label : Labels, version : VersionIds, parses : {TRUE}]
    \cup [op : {"restore"}, version : VersionIds, parses : {TRUE}]
    \cup [op : {"diff"}, from : VersionIds, to : VersionIds, parses : {TRUE}]
    \cup [op : {"versions"}, parses : {TRUE}]

RestWants ==
  [op : {"scroll"}, at : Ats, parses : {TRUE}] \cup [op : {"stats", "drop"}, parses : {TRUE}]
    \cup [op : {"point", "delete"}, id : Ids, parses : {TRUE}]

GrpcWants ==
  {[op |-> "batch", dims |-> points, deletes |-> deletes, commit |-> commit, tag |-> tag,
    parses |-> TRUE] :
     points \in {<<>>, <<1>>, <<1, 2>>}, deletes \in {{}, {0}},
     commit \in BOOLEAN, tag \in Labels \cup {Nil}}

(* Bounds of the model: a collection grows no further.                     *)
Fits(c) == c # Nil => c.ids <= MaxPoints /\ Len(c.versions) <= MaxVersions

Becomes(n, answer) ==
  /\ Fits(answer.collection)
  /\ collections' = [collections EXCEPT ![n] = answer.collection]

ByRest == \E n \in Names, want \in BothWants \cup RestWants :
            Becomes(n, Rest(collections[n], want))
ByGrpc == \E n \in Names, want \in BothWants \cup GrpcWants :
            Becomes(n, Grpc(collections[n], want))
ByCli  == \E n \in Names, want \in BothWants \cup GrpcWants :
            want.op \in CliOps /\ Becomes(n, Grpc(collections[n], Cli(want)))

FrontEndsNext == ByRest \/ ByGrpc \/ ByCli

FrontEndsSpec == FrontEndsInit /\ [][FrontEndsNext]_collections

-----------------------------------------------------------------------------
Parallel == {<<200, "ok">>, <<404, "not_found">>, <<409, "already_exists">>,
             <<400, "invalid_argument">>, <<422, "invalid_argument">>, <<500, "internal">>}

(* Whatever has been done before, both front ends do the same for the same *)
(* request, tell the same and with parallel statuses, except that an       *)
(* upload of no message at all names no collection to gRPC.                *)
OneService ==
  \A n \in DOMAIN collections, want \in BothWants :
    LET rest == Rest(collections[n], want)
        grpc == Grpc(collections[n], want) IN
    (want.op = "upsert" => want.messages # <<>>) =>
      /\ rest.collection = grpc.collection /\ rest.data = grpc.data
      /\ <<rest.status, grpc.status>> \in Parallel
=============================================================================
