\* Two static publications to the same destination.
CONSTANTS
    Builders = {b1, b2}
    PartCount = 1
    Method = "move"
SPECIFICATION BuildSpec
PROPERTIES
    PublicationIsImmutable
