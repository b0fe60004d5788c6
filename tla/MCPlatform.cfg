SPECIFICATION Spec
CONSTANTS
    memory_size = 2
    mmio_phy_base = 16
    mmio_phy_end_addr = 40
    uart_base = 16
    flash_base = 32
    flash_size = 2
    Accesses <- MCAccesses
    Image <- MCImage
    Chars = {0, 1}
    device_clk_div = 2
    MaxTyped = 1
    MaxAhead = 1
INVARIANTS
    NoMissedInterrupt
    IrqLine
    MachinesAgree
PROPERTIES
    NoInputLost
    InputNoticed
CHECK_DEADLOCK FALSE
