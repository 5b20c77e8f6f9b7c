\* The poller, a scan and a preview share the session with the listener.
SPECIFICATION FairSpec
CONSTANTS
    poll = poll
    scan = scan
    preview = preview
    Calls = {poll, scan, preview}
    Poller = poll
    Previews = {preview}
    Slots = {1, 2}
    MaxFailures = 5
INVARIANTS TypeOK OneListener BackoffFollowsFailures
PROPERTIES EndedSessionGoes ListenerReopens
