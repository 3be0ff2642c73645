------------------------------- MODULE Session -------------------------------
(***************************************************************************)
(* From the launch to a running application: src/app.py, the onboarding    *)
(* and its web server (src/src/network/auth_server.py), AuthService, the   *)
(* stored credentials (src/src/config/client_config.py), the Container,    *)
(* and logout (src/src/actions/auth_actions.py), over several launches.    *)
(*                                                                         *)
(* A pair of client id and secret is a member of Creds.  A SpotifyNetwork  *)
(* is the credentials its SpotifyOAuth was made with: the configuration    *)
(* object is shared and may hold others by now.  A token belongs to the    *)
(* credentials it was issued for, and only they can refresh it.            *)
(***************************************************************************)
EXTENDS Integers, Sequences

CONSTANTS
    Creds,       \* the credentials a user may type
    NoCreds,     \* none (not in Creds): no configuration, token, network or link
    MaxRequests  \* bound of the model: web requests that wait to be handled

VARIABLES
    bundled,     \* running from a PyInstaller bundle: a file is the keyring
    keyring,     \* the saved credentials
    tokenOf,     \* the credentials the token file belongs to
    expired,     \* the token is past its hour
    links,       \* the authorisation pages open in the user's browser
    pc,          \* where the main thread is
    conf,        \* the ClientConfiguration in memory
    registered,  \* the SpotifyNetwork registered with the Container
    instance,    \* the one the Container has handed out and kept
    player,      \* a LocalPlayer is registered
    serving,     \* the web server runs
    authUrl,     \* server_state["auth_url"]
    requests,    \* auth_queue
    event        \* the request being handled

token   == <<tokenOf, expired>>
memory  == <<conf, registered, instance, player>>
web     == <<serving, authUrl, requests, event>>
vars    == <<bundled, keyring, token, links, pc, memory, web>>

Some == Creds \cup {NoCreds}

\* A form's credentials, or the credentials whose page sent the browser back.
Request == [type : {"config"}, creds : Creds] \cup [type : {"callback"}, creds : Some]

Phases == {"off", "setup", "wait", "blocked", "config", "connect", "callback",
           "again", "start", "running"}

TypeOK ==
    /\ bundled \in BOOLEAN /\ keyring \in Some
    /\ tokenOf \in Some /\ expired \in BOOLEAN
    /\ links \subseteq Creds
    /\ pc \in Phases
    /\ conf \in Some /\ registered \in Some /\ instance \in Some
    /\ player \in BOOLEAN /\ serving \in BOOLEAN /\ authUrl \in Some
    /\ requests \in Seq(Request) /\ event \in Request

Nothing == [type |-> "callback", creds |-> NoCreds]

Init ==
    /\ bundled \in BOOLEAN /\ keyring = NoCreds
    /\ tokenOf = NoCreds /\ expired = FALSE
    /\ links = {}
    /\ pc = "off"
    /\ conf = NoCreds /\ registered = NoCreds /\ instance = NoCreds
    /\ player = FALSE /\ serving = FALSE /\ authUrl = NoCreds
    /\ requests = <<>> /\ event = Nothing

\* Container.resolve(SpotifyNetwork): what was handed out once is kept.
Resolved == IF instance # NoCreds THEN instance ELSE registered

-----------------------------------------------------------------------------
\* get_client of the AuthService of credentials c: a client if there is a
\* token that is fresh or can be refreshed ...
SignedIn(c) ==
    /\ tokenOf # NoCreds
    /\ expired => tokenOf = c
    /\ expired' = FALSE
    /\ UNCHANGED tokenOf

\* ... and none, the token file being removed if the refresh is refused.
SignedOut(c) ==
    /\ tokenOf = NoCreds \/ expired
    /\ tokenOf' = NoCreds
    /\ expired' = FALSE

\* get_access_token refreshes as well, but keeps what it cannot refresh.
AccessToken(c) ==
    \/ SignedIn(c)
    \/ (tokenOf = NoCreds \/ expired) /\ UNCHANGED token

-----------------------------------------------------------------------------
\* A new process: ClientConfiguration.load, whose errors are swallowed.
Launch ==
    /\ pc = "off" /\ pc' = "setup"
    /\ conf' \in {keyring, NoCreds}
    /\ registered' = NoCreds /\ instance' = NoCreds /\ player' = FALSE
    /\ serving' = FALSE /\ authUrl' = NoCreds
    /\ requests' = <<>> /\ event' = Nothing
    /\ UNCHANGED <<bundled, keyring, token, links>>

Onboard == pc' = "wait" /\ serving' = TRUE /\ UNCHANGED <<authUrl, requests, event>>

SetupUnconfigured ==
    /\ pc = "setup" /\ conf = NoCreds
    /\ Onboard
    /\ UNCHANGED <<bundled, keyring, token, links, memory>>

\* setup_spotify registers the network before it asks whether there is a token,
\* and the player only if there is one.
SetupSignedIn ==
    /\ pc = "setup" /\ conf # NoCreds
    /\ SignedIn(conf)
    /\ registered' = conf /\ player' = TRUE
    /\ pc' = "again"
    /\ UNCHANGED <<bundled, keyring, links, conf, instance, web>>

SetupSignedOut ==
    /\ pc = "setup" /\ conf # NoCreds
    /\ SignedOut(conf)
    /\ registered' = conf
    /\ Onboard
    /\ UNCHANGED <<bundled, keyring, links, conf, instance, player>>

\* An error on the way to a new token makes setup_spotify return early.
SetupRaises ==
    /\ pc = "setup" /\ conf # NoCreds /\ expired
    /\ Onboard
    /\ UNCHANGED <<bundled, keyring, token, links, memory>>

\* The second call of setup_spotify, whose result nobody looks at.
AgainSignedIn ==
    /\ pc = "again" /\ SignedIn(conf)
    /\ registered' = conf /\ player' = TRUE
    /\ pc' = "start"
    /\ UNCHANGED <<bundled, keyring, links, conf, instance, web>>

AgainSignedOut ==
    /\ pc = "again" /\ SignedOut(conf)
    /\ registered' = conf
    /\ pc' = "start"
    /\ UNCHANGED <<bundled, keyring, links, conf, instance, player, web>>

\* The token may have passed its hour since the first call.
AgainRaises ==
    /\ pc = "again" /\ expired
    /\ pc' = "start"
    /\ UNCHANGED <<bundled, keyring, token, links, memory, web>>

\* The services are looked up; one that was never registered ends the program,
\* and so does a token that the look for it in the cache cannot refresh.
Start ==
    /\ pc = "start"
    /\ IF player /\ Resolved # NoCreds
         THEN /\ instance' = Resolved
              /\ \/ AccessToken(Resolved) /\ pc' = "running"
                 \/ expired /\ UNCHANGED token /\ pc' = "off"
         ELSE pc' = "off" /\ UNCHANGED <<instance, token>>
    /\ UNCHANGED <<bundled, keyring, links, conf, registered, player, web>>

-----------------------------------------------------------------------------
\* The onboarding: once a second its event loop asks the server for a request,
\* and waits until there is one.
CheckServer ==
    /\ pc = "wait" /\ pc' = "blocked"
    /\ UNCHANGED <<bundled, keyring, token, links, memory, web>>

GetEvent ==
    /\ pc = "blocked" /\ requests # <<>>
    /\ event' = Head(requests) /\ requests' = Tail(requests)
    /\ pc' = Head(requests).type
    /\ UNCHANGED <<bundled, keyring, token, links, memory, serving, authUrl>>

\* ClientConfiguration.save; the file store also drops the old token.
SaveConfig ==
    /\ pc = "config" /\ pc' = "connect"
    /\ conf' = event.creds
    /\ \/ /\ keyring' = event.creds
          /\ IF bundled THEN tokenOf' = NoCreds /\ expired' = FALSE ELSE UNCHANGED token
       \/ UNCHANGED <<keyring, token>>
    /\ UNCHANGED <<bundled, links, registered, instance, player, web>>

\* The network of the new credentials, and its page in the browser.
Connect ==
    /\ pc = "connect" /\ pc' = "wait"
    /\ SignedIn(conf) \/ SignedOut(conf)
    /\ registered' = conf
    /\ authUrl' = conf
    /\ links' = links \cup {conf}
    /\ UNCHANGED <<bundled, keyring, conf, instance, player, serving, requests, event>>

\* complete_login: a token in the cache is taken, whatever came back, if it is
\* fresh or can be refreshed; else the code is used, which is good for the
\* credentials it was asked with.
Login ==
    /\ pc = "callback" /\ pc' = "again"
    /\ Resolved # NoCreds
    /\ instance' = Resolved
    /\ \/ SignedIn(Resolved)
       \/ tokenOf = NoCreds /\ event.creds = Resolved
          /\ tokenOf' = event.creds /\ expired' = FALSE
    /\ UNCHANGED <<bundled, keyring, links, conf, registered, player, web>>

LoginFails ==
    /\ pc = "callback" /\ pc' = "wait"
    /\ Resolved # NoCreds
    /\ instance' = Resolved
    /\ UNCHANGED <<bundled, keyring, token, links, conf, registered, player, web>>

\* Without a network the lookup raises in the timer, which ends the program.
LoginUnknown ==
    /\ pc = "callback" /\ pc' = "off"
    /\ Resolved = NoCreds
    /\ UNCHANGED <<bundled, keyring, token, links, memory, web>>

-----------------------------------------------------------------------------
\* The web server's thread: the form, and the way back from Spotify's page.
Put(r) ==
    /\ pc # "off" /\ serving
    /\ Len(requests) < MaxRequests
    /\ requests' = Append(requests, r)
    /\ UNCHANGED <<bundled, keyring, token, links, pc, memory, serving, authUrl, event>>

Submit(c) == Put([type |-> "config", creds |-> c])

Return(c) == Put([type |-> "callback", creds |-> c])

-----------------------------------------------------------------------------
\* The heartbeat asks for a token when the player does not run.
Heartbeat ==
    /\ pc = "running" /\ AccessToken(instance)
    /\ UNCHANGED <<bundled, keyring, links, pc, memory, web>>

\* check_authentication; reauthenticate makes a new SpotifyOAuth from the
\* configuration.
CheckAuthentication ==
    /\ pc = "running"
    /\ \/ SignedIn(instance) /\ UNCHANGED instance
       \/ SignedOut(instance) /\ instance' = conf
    /\ UNCHANGED <<bundled, keyring, links, pc, conf, registered, player, web>>

\* The end of the process, wherever it is.  Logout ends it as well: the files
\* it removes (./.cache, client.yml) are not those that hold the token and the
\* credentials.
End ==
    /\ pc # "off" /\ pc' = "off"
    /\ UNCHANGED <<bundled, keyring, token, links, memory, web>>

\* A token lasts an hour: one that a login has just left or looked at, before
\* there is a player, does not pass it on the way to the start.
Expire ==
    /\ pc \in {"off", "setup", "wait", "blocked", "running"} \/ (pc = "again" /\ player)
    /\ tokenOf # NoCreds
    /\ expired' = TRUE
    /\ UNCHANGED <<bundled, keyring, tokenOf, links, pc, memory, web>>

Next ==
    \/ Launch \/ SetupUnconfigured \/ SetupSignedIn \/ SetupSignedOut \/ SetupRaises
    \/ AgainSignedIn \/ AgainSignedOut \/ AgainRaises \/ Start
    \/ CheckServer \/ GetEvent \/ SaveConfig \/ Connect
    \/ Login \/ LoginFails \/ LoginUnknown
    \/ \E c \in Creds : Submit(c)
    \/ \E c \in links \cup {NoCreds} : Return(c)
    \/ Heartbeat \/ CheckAuthentication \/ End \/ Expire

Spec == Init /\ [][Next]_vars

-----------------------------------------------------------------------------
\* Whatever way the program takes to its start, the player and the network it
\* then looks up have been registered.
StartFindsServices == pc = "start" => player /\ Resolved # NoCreds

=============================================================================
