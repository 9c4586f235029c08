SPECIFICATION CliSpec
CONSTANTS
    Connect = {c1, c2, c3}
    Disconnect = {d1}
    NoFile = NoFile
INVARIANTS CliTypeOK InterruptCleans
PROPERTY AddressSettles
