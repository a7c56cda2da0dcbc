---------------------------- MODULE ClientRequests ----------------------------
(***************************************************************************)
(* packages/api-support: how a client is put together from its base URL    *)
(* and options, and how the calls that share it make their requests, up to *)
(* the Do of the HTTP client.  What becomes of a request is in             *)
(* SupportClient.                                                          *)
(***************************************************************************)
EXTENDS Integers, FiniteSets, SequencesExt

CONSTANTS
    Calls,      \* the calls of a behaviour
    Doers,      \* the HTTP clients a consumer passes in
    Fns,        \* its request editors
    BaseURLs,   \* its base URLs: [parses, path, hasQuery]
    Ids,        \* announcement ids
    MaxOptions, \* bound: options given
    NULL

(* The segments of a path; one that ends in a slash ends in an empty one.  *)
(* What follows a path is one query here; a fragment would behave alike.   *)
ASSUME URLsAssumption ==
    BaseURLs \subseteq [parses : BOOLEAN, path : Seq(STRING), hasQuery : BOOLEAN]

ASSUME NullAssumption == NULL \notin BaseURLs

ASSUME BoundAssumption == MaxOptions \in Nat

FreshClient == "&http.Client{}"

VARIABLES
    given,   \* what the client is made from: the base URL and the options
    making,  \* the constructor at work, with its loop over options
    client,  \* the client; NULL before, and after an option's error
    call     \* what each call has come to

vars == <<given, making, client, call>>

-----------------------------------------------------------------------------
(* URLs.                                                                   *)

EndsInSlash(u) == ~u.hasQuery /\ u.path # <<>> /\ Last(u.path) = ""

(* Mutant: the server URL as it was given. *)
WithoutSlash(u) == u

(* NewClient's slash goes to the end of the URL: into a query, if any. *)
WithSlash(u) ==
    IF EndsInSlash(u) \/ u.hasQuery THEN u ELSE [u EXCEPT !.path = Append(@, "")]

(* The URL of a "./..." reference: what follows the last slash of the base *)
(* is replaced, and so is its query.                                       *)
Resolve(u, path) ==
    [u EXCEPT !.path = (IF @ = <<>> THEN <<>> ELSE Front(@)) \o path, !.hasQuery = FALSE]

Operations ==
    [op : {"GetHealth", "ListAnnouncements"}, id : {NULL}]
        \cup [op : {"GetAnnouncement"}, id : Ids]

OperationPath(o) ==
    CASE o.op = "GetHealth" -> <<"health">>
      [] o.op = "ListAnnouncements" -> <<"api", "v1", "support", "announcements">>
      [] OTHER -> <<"api", "v1", "support", "announcements", o.id>>

-----------------------------------------------------------------------------
(* Construction.                                                           *)

WithHTTPClient == [kind : {"doer"}, value : Doers \cup {NULL}]
WithRequestEditorFn == [kind : {"editor"}, value : Fns]
WithBaseURL == [kind : {"base"}, value : BaseURLs]

(* The fields of a Client.  Of New's config they are the last two, beside  *)
(* the base URL that New was given.                                        *)
Fields(server) == [Server |-> server, Client |-> NULL, RequestEditors |-> <<>>]

(* Mutant: the first HTTP client wins. *)
SetFieldOnce(c, o) ==
    CASE o.kind = "doer" -> [c EXCEPT !.Client = IF @ = NULL THEN o.value ELSE @]
      [] o.kind = "editor" -> [c EXCEPT !.RequestEditors = Append(@, o.value)]
      [] OTHER -> [c EXCEPT !.Server = o.value]

SetField(c, o) ==
    CASE o.kind = "doer" -> [c EXCEPT !.Client = o.value]
      [] o.kind = "editor" -> [c EXCEPT !.RequestEditors = Append(@, o.value)]
      [] OTHER -> [c EXCEPT !.Server = o.value]

(* The options of the generated client, from the config of New. *)
apiOpts(cfg) ==
    (IF cfg.Client = NULL THEN <<>> ELSE <<[kind |-> "doer", value |-> cfg.Client]>>)
        \o [k \in DOMAIN cfg.RequestEditors |->
                [kind |-> "editor", value |-> cfg.RequestEditors[k]]]

Unmade == [base |-> NULL, options |-> <<>>]

(* A constructor about to range over its options, and none at work. *)
Loop(constructor, server, opts) ==
    [in |-> constructor, options |-> opts, applied |-> 0, fields |-> Fields(server)]

Nobody == Loop("none", NULL, <<>>)

Begin(constructor, base, opts) ==
    /\ given = Unmade
    /\ given' = [base |-> base, options |-> opts]
    /\ making' = Loop(constructor, base, opts)
    /\ UNCHANGED <<client, call>>

New ==
    \E base \in BaseURLs,
       opts \in SeqOf(WithHTTPClient \cup WithRequestEditorFn, MaxOptions) :
        Begin("New", base, opts)

NewClientWithResponses ==
    \E base \in BaseURLs,
       opts \in SeqOf(WithHTTPClient \cup WithRequestEditorFn \cup WithBaseURL, MaxOptions) :
        Begin("NewClient", base, opts)

(* An option's error, the one of a base URL that does not parse, ends the  *)
(* construction.  The URL that NewClient itself is given is not parsed.    *)
ApplyOption ==
    /\ making.applied < Len(making.options)
    /\ LET o == making.options[making.applied + 1] IN
        making' = IF o.kind = "base" /\ ~o.value.parses THEN Nobody
                  ELSE [making EXCEPT !.applied = @ + 1, !.fields = SetField(@, o)]
    /\ UNCHANGED <<given, client, call>>

(* New hands the fields of its config over as options. *)
HandOver ==
    /\ making.in = "New" /\ making.applied = Len(making.options)
    /\ making' = Loop("NewClient", making.fields.Server, apiOpts(making.fields))
    /\ UNCHANGED <<given, client, call>>

NewClient ==
    /\ making.in = "NewClient" /\ making.applied = Len(making.options)
    /\ client' = [making.fields EXCEPT !.Server = WithSlash(@),
                                      !.Client = IF @ = NULL THEN FreshClient ELSE @]
    /\ making' = Nobody
    /\ UNCHANGED <<given, call>>

-----------------------------------------------------------------------------
(* Calls.                                                                  *)

Idle == [at |-> "idle", operation |-> NULL, own |-> <<>>, url |-> NULL,
         todo |-> <<>>, edits |-> <<>>, doer |-> NULL]

Step(c, from, record) == call[c].at = from /\ call' = [call EXCEPT ![c] = record]

(* Mutant: the editors are put together in one array of the client's. *)
EditorsInOneArray(own) ==
    LET editing == {c \in Calls : call[c].at = "editing"}
    IN  client.RequestEditors
            \o (IF editing = {} THEN own ELSE call[CHOOSE c \in editing : TRUE].own)

(* The editors of a call: the client's, then those the call brings. *)
Editors(own) == client.RequestEditors \o own

(* A base URL that does not parse fails here, before any editor has run. *)
NewRequest(o, own) ==
    IF client.Server.parses
    THEN [Idle EXCEPT !.at = "editing", !.operation = o, !.own = own,
                      !.url = Resolve(client.Server, OperationPath(o)), !.todo = Editors(own)]
    ELSE [Idle EXCEPT !.at = "failed", !.operation = o, !.own = own]

Start(c) ==
    /\ client # NULL
    /\ \E o \in Operations, own \in SeqOf(Fns, 1) : Step(c, "idle", NewRequest(o, own))
    /\ UNCHANGED <<given, making, client>>

Edit(c) ==
    /\ call[c].todo # <<>>
    /\ Step(c, "editing", [call[c] EXCEPT !.todo = Tail(@),
                                          !.edits = Append(@, Head(call[c].todo))])
    /\ UNCHANGED <<given, making, client>>

EditFails(c) ==
    /\ call[c].todo # <<>>
    /\ Step(c, "editing", [call[c] EXCEPT !.at = "failed"])
    /\ UNCHANGED <<given, making, client>>

Do(c) ==
    /\ call[c].todo = <<>>
    /\ Step(c, "editing", [call[c] EXCEPT !.at = "sent", !.doer = client.Client])
    /\ UNCHANGED <<given, making, client>>

-----------------------------------------------------------------------------
Init ==
    /\ given = Unmade
    /\ making = Nobody
    /\ client = NULL
    /\ call = [c \in Calls |-> Idle]

Next ==
    \/ New \/ NewClientWithResponses \/ ApplyOption \/ HandOver \/ NewClient
    \/ \E c \in Calls : Start(c) \/ Edit(c) \/ EditFails(c) \/ Do(c)

Spec == Init /\ [][Next]_vars

-----------------------------------------------------------------------------
(* Properties                                                              *)

Options == WithHTTPClient \cup WithRequestEditorFn \cup WithBaseURL

(* The types of the variables. *)
TypeOK ==
    /\ given = Unmade \/ given \in [base : BaseURLs, options : SeqOf(Options, MaxOptions)]
    /\ making.in \in {"none", "New", "NewClient"}
    /\ making.applied \in 0..Len(making.options)
    /\ client # NULL =>
        /\ EndsInSlash(client.Server) \/ client.Server.hasQuery
        /\ client.Client \in Doers \cup {FreshClient}
        /\ client.RequestEditors \in Seq(Fns)
    /\ \A c \in Calls :
        /\ call[c].at \in {"idle", "editing", "failed", "sent"}
        /\ call[c].todo \in Seq(Fns) /\ call[c].edits \in Seq(Fns)

Sent(c) == call[c].at = "sent"

(* The options of a kind by their places in the list, and what they bring, *)
(* in the order of the list: the k-th is the one with k up to it.          *)
OfKind(opts, kind) == {i \in DOMAIN opts : opts[i].kind = kind}

UpTo(S, i) == {j \in S : j <= i}

Nth(S, k) == CHOOSE i \in S : Cardinality(UpTo(S, i)) = k

Values(opts, kind) ==
    LET places == OfKind(opts, kind)
    IN  [k \in 1..Cardinality(places) |-> opts[Nth(places, k)].value]

(* The value in force: that of the last option of the kind, if any. *)
LastOf(opts, kind, none) ==
    IF OfKind(opts, kind) = {} THEN none ELSE Last(Values(opts, kind))

Base == LastOf(given.options, "base", given.base)

(* A request goes below the path of the base URL, whether or not that was  *)
(* written with its slash, unless the base URL has a query; nothing goes   *)
(* to one that does not parse, which New does not look at                  *)
(* (client.go:67, openapi_gen.go:111-114, 136-145, 219-236).               *)
RequestsGoBelowTheBase ==
    \A c \in Calls :
        Sent(c) =>
            /\ Base.parses
            /\ ~Base.hasQuery =>
                LET dir == IF EndsInSlash(Base) THEN Front(Base.path) ELSE Base.path
                IN  call[c].url.path = dir \o OperationPath(call[c].operation)

(* A request that goes out has been through every editor of the options,   *)
(* in their order, and through its call's own after them and nobody        *)
(* else's, whatever calls share the client and whichever editor failed     *)
(* (client.go:47-50, openapi_gen.go:352-364).                              *)
SentRequestsAreEdited ==
    \A c \in Calls :
        Sent(c) => call[c].edits = Values(given.options, "editor") \o call[c].own

(* When the last of the HTTP clients given is one, not nil, every request  *)
(* goes to it: none goes to one given before it, and none to the default,  *)
(* through the options of New and those of NewClient (client.go:43-45,     *)
(* 60-62, openapi_gen.go:146-149).                                         *)
SentToTheLastDoer ==
    LET doer == LastOf(given.options, "doer", NULL) IN
    doer # NULL => \A c \in Calls : Sent(c) => call[c].doer = doer

===============================================================================
