---------------------------- MODULE MCAdmission ----------------------------
(***************************************************************************)
(* Small instances of Admission for TLC: two projects, one of them called  *)
(* "store", two keys, and requests of four families.                       *)
(***************************************************************************)
EXTENDS Admission, TLC

CONSTANTS p1, store, k1, k2

Plain == [decodes |-> TRUE, coding |-> "plain", wire |-> 1, size |-> 1,
          dsn |-> NoDsn, envelope |-> TRUE]

Coded(coding) == [Plain EXCEPT !.coding = coding]

To(endpoint, project, header, query, encoding, body) ==
    [endpoint |-> endpoint, project |-> project, header |-> header, query |-> query,
     encoding |-> encoding, body |-> body]

WithDsn(body, k, p) == [body EXCEPT !.dsn = [key |-> k, project |-> p]]

\* Every combination of the forms of authentication.
AuthRequests ==
    {To("envelope", p1, h, q, "", b) :
        h \in {Absent, NoKey, k1, k2}, q \in {NoKey, k1}, b \in {Plain, WithDsn(Plain, k1, p1)}}

\* The project from the DSN, or from nowhere; a DSN without a key; the DSN of
\* another project; a DSN that is compressed.
DsnRequests ==
    {To("envelope", NoProject, Absent, NoKey, "", WithDsn(Plain, k1, p1)),
     To("envelope", NoProject, k1, NoKey, "", Plain),
     To("envelope", p1, Absent, NoKey, "", WithDsn(Plain, NoKey, p1)),
     To("envelope", p1, Absent, NoKey, "", WithDsn(Plain, k1, store)),
     To("envelope", p1, Absent, NoKey, "gzip", WithDsn(Coded("gzip"), k1, p1))}

\* Encodings before what they may stand for, the limit of two bytes, bodies
\* that are no envelope; each departure, beside what is judged like it.
BodyRequests ==
    {To("envelope", p1, k1, NoKey, x[1], Coded(x[2])) :
        x \in {<<"gzip", "plain">>, <<"deflate", "zlib">>, <<"deflate", "zlib-small">>,
               <<"deflate", "raw">>, <<"deflate", "raw-78">>, <<"deflate", "raw-zlib">>,
               <<"other", "plain">>, <<"", "zstd">>}}
    \cup {To("store", p1, k1, NoKey, x[1], Coded(x[2])) :
        x \in {<<"", "plain">>, <<"gzip", "gzip">>, <<"gzip", "plain">>, <<"", "zstd">>}}
    \cup {To("store", p1, k1, NoKey, "gzip", [Coded("gzip") EXCEPT !.size = 3])}
    \cup {To("envelope", p1, k1, NoKey, "gzip", [Coded("gzip") EXCEPT !.wire = n[1], !.size = n[2]]) :
        n \in {<<1, 3>>, <<2, 2>>, <<3, 1>>}}
    \cup {To(x[1], x[2], k1, NoKey, "", [Plain EXCEPT !.envelope = FALSE]) :
        x \in {<<"envelope", p1>>, <<"store", p1>>, <<"envelope", store>>}}
    \cup {To("envelope", store, k1, NoKey, "", Plain)}
    \cup {To("envelope", p1, k1, NoKey, "", [Plain EXCEPT !.decodes = FALSE])}

\* The query API.
QueryRequests ==
    {To("events", p1, x[1], x[2], "", Plain) :
        x \in {<<Absent, NoKey>>, <<NoKey, k1>>, <<k1, k2>>}}
    \cup {To("events", NoProject, k1, NoKey, "", Plain)}

MCRequests == AuthRequests \cup DsnRequests \cup BodyRequests \cup QueryRequests
=============================================================================
