---------------------------- MODULE MCReadiness ----------------------------
\* A small instance of Readiness: two assets, four mails, one operation, three
\* requests of a page.
EXTENDS Readiness

CONSTANTS a1, a2, m1, m2, m3, m4

Poll(timeout, intervals, hooked, classifies) ==
  [kind |-> "poll", hooked |-> hooked, timeout |-> timeout,
   intervals |-> intervals, classifies |-> classifies]
Classified(maxAttempts, delays, hooked, computed) ==
  [kind |-> "classified", hooked |-> hooked, maxAttempts |-> maxAttempts,
   delays |-> delays, computed |-> computed]

MCCalls == {Plain, Graph, Mail, a1, a2}
MCAssetCalls == <<a1, a2>>

\* Modes that are used, and modes that validateRetryMode refuses.
MCPlainModes ==
  {Poll(2, <<1, 2>>, TRUE, TRUE), Poll(1, <<4>>, FALSE, FALSE),
   Poll(0, <<1>>, FALSE, FALSE), Poll(2, <<>>, FALSE, FALSE), Poll(2, <<1, -1>>, FALSE, FALSE),
   Classified(2, {1}, TRUE, FALSE), Classified(3, {0, 2, -1}, FALSE, TRUE),
   Classified(0, {1}, FALSE, FALSE), Classified(2, {-1}, FALSE, FALSE)}
MCGraphModes == {Poll(3, <<1>>, FALSE, TRUE), Poll(0, <<1>>, FALSE, TRUE)}
MCAssetModes == {Classified(2, {1}, FALSE, FALSE)}
MCMailModes == {Poll(2, <<1>>, FALSE, TRUE), Poll(0, <<1>>, FALSE, TRUE)}
MCModes == MCPlainModes \cup MCGraphModes \cup MCAssetModes \cup MCMailModes

MCGraphOptions ==
  {[limit |-> 5, checks |-> 2, window |-> 2], [limit |-> 1, checks |-> 2, window |-> 1],
   [limit |-> 2, checks |-> 1, window |-> 1], [limit |-> 1, checks |-> 0, window |-> 1],
   [limit |-> 0, checks |-> 1, window |-> 0]}

\* Scripts, one of them validated.
MCExpected == <<{"text/javascript"}, {}>>
MCValidated == {2}
MCFetchErrors == {[codes |-> {"TypeError", "ECONNRESET"}, message |-> "other"],
                  [codes |-> {"TypeError"}, message |-> "fetch failed"],
                  [codes |-> {"TypeError"}, message |-> "other"]}
MCAssetStatuses == {200, 404, 425, 503}
MCContentTypes == {"application/javascript", "text/javascript", "text/html"}

\* A mail with an old link, one with a new link and the halves of a code, an undated one
\* with a link and a code, and one whose summary is malformed.
Token(kind, value) == [kind |-> kind, value |-> value]
MCMails == {m1, m2, m3, m4}
MCCreated == [m \in MCMails |-> CASE m \in {m1, m4} -> 0 [] m = m2 -> 1 [] m = m3 -> NoDate]
MCTextOf == [m \in MCMails |->
  CASE m \in {m1, m4} -> <<Token("word", "hello"), Token("link", "old")>>
    [] m = m2 -> <<Token("four", "2026"), Token("word", "hello"), Token("four", "2027")>>
    [] m = m3 -> <<Token("four", "2026"), Token("space", " "), Token("eight", "first"),
                   Token("link", "other")>>]
MCHtmlOf == [m \in MCMails |->
  CASE m \in {m1, m4} -> <<Token("link", "older")>>
    [] m = m2 -> <<Token("style", "s"), Token("four", "1111"), Token("link", "new"),
                   Token("four", "2222")>>
    [] m = m3 -> <<Token("eight", "second")>>]
MCExcluded == [link |-> {<<"old">>}, code |-> {<<"first">>}]
MCMalformed == {m4}
MCStatuses == {404, 401}

MCSetupErrors == {[status |-> 0, response |-> 503], [status |-> 422, response |-> 503]}

\* The challenge of a code, a second one, and a request of the same kind for a password.
MCRequestOf == [otp1 |-> [method |-> "POST", isCognito |-> TRUE,
                          target |-> "RespondToAuthChallenge", challenge |-> "EMAIL_OTP"],
                otp2 |-> [method |-> "POST", isCognito |-> TRUE,
                          target |-> "RespondToAuthChallenge", challenge |-> "SMS_OTP"],
                other |-> [method |-> "POST", isCognito |-> TRUE,
                           target |-> "RespondToAuthChallenge", challenge |-> "unknown"]]
MCRequests == DOMAIN MCRequestOf
MCBodyOf == [r \in MCRequests |-> {"words", "field"}]
MCPageText == {"words", "number", "parameter"}
MCPlaywrightText == {"words", "email"}
MCResponseStatuses == {200, 302, 400}
=============================================================================
